---- MODULE Spec2Model ----
(***************************************************************************)
(* Model of the two benchmark drivers kod/cliqueK_and_SAT/sat_starter.py   *)
(* (URSA vs MiniSat) and kod/cliqueK_and_SAT/cliqueK_starter.py (URSA vs   *)
(* Cliquer): the classification of solver output, the statistics section   *)
(* of the report and the resumable run controller.                         *)
(*                                                                         *)
(* Text is modelled as TLA+ strings, character by character: Python's      *)
(* `x in s`, str.strip, str.split, int(), the f-string paddings and the    *)
(* regular expressions are operators over the characters of the string.    *)
(***************************************************************************)
EXTENDS Integers, Sequences, FiniteSets, TLC

(***************************************************************************)
(* Bounds of the model.                                                    *)
(***************************************************************************)
\* number of text fragments a solver's stdout is made of
MaxChunks == 3
\* largest configured timeout (seconds)
MaxTimeout == 2
\* number of input files in the benchmarked directory
NumFiles == 3
\* number of runs of benchmark_directory on the same report file
MaxRuns == 2
\* number of results counted into a statistics value before it is written
MaxCounted == 2

(***************************************************************************)
(* State.                                                                  *)
(***************************************************************************)
VARIABLES
  \* ProcessRunner / OutputClassifier
  timeout,    \* self.timeout, the configured timeout in seconds
  proc,       \* the child process the runner is given (see ProcessRunner)
  ran,        \* the runner that has run on proc ("none" before)
  ret         \* what that runner returned

cvars == <<proc, ran, ret>>

VARIABLES
  \* the benchmark run controller (benchmark_directory of either driver)
  driver,            \* "sat" (sat_starter.py) or "clique" (cliqueK_starter.py)
  dir,               \* the sorted list find_dimacs_files / find_graph_files
                     \* returned in the current run
  report_exists,     \* os.path.exists(output_file)
  report,            \* the lines of the report file on disk
  f_buffer,          \* lines written to f and not yet flushed
  pc,                \* position of the run: "idle" (no run), "loop", "ursa",
                     \* "ref", "red", "row", "flush"; in SpecStats "count",
                     \* "written", "parsed"
  continue_mode,     \* self.continue_mode of the current run
  has_reduction,     \* bool(self.reduction_template) of the current run
  processed_files,   \* self.processed_files
  existing_stats,    \* self.existing_stats
  stats,             \* the fresh statistics of the current run
  files_to_process,  \* the list filter_files returned
  idx,               \* index in files_to_process of the current instance
  skipped_count,     \* skipped_count of filter_files
  result             \* the result record benchmark_file is building

rvars == <<driver, dir, report_exists, report, f_buffer, pc, continue_mode,
           has_reduction, processed_files, existing_stats, stats,
           files_to_process, idx, skipped_count, result>>

VARIABLES
  \* history of the runs, kept for stating the properties
  started,       \* <<file name, solver>> of the solver processes launched in this run
  run_results,   \* the results update_stats has counted in this run
  completed,     \* file names of the instances whose row was flushed in this run
  rowlog,        \* the results whose rows are in the report on disk
  base_lines,    \* the lines of the report when the loop of this run began
  final_stats,   \* the statistics the last finalization wrote
  last_run,      \* [n, cont, red, end] of the last run that ended
  prev_run,      \* for a resumed run, the same for the run that ended before it
  nruns          \* number of runs started

hvars == <<started, run_results, completed, rowlog, base_lines, final_stats,
           last_run, prev_run, nruns>>

VARIABLES
  \* the parsing of one input file and the generation of its URS programs
  content,     \* the text of the input file
  instance,    \* what parse_dimacs / parse_dimacs_graph made of content
  urs_code,    \* the lines of the program generate_urs_code returned last
  generated,   \* history: [template, code] of every call of generate_urs_code
  gpc          \* "idle" (nothing read), "read", "failed" (the parser raised),
               \* "parsed", "generated"

gvars == <<content, instance, urs_code, generated, gpc>>

VARIABLES
  \* the solver processes of the operating system
  alive,         \* <<file name, solver>> of the children of this run not yet exited
  concurrent     \* the most children of this run alive at the same time so far

pvars == <<alive, concurrent>>

vars == <<timeout, cvars, rvars, hvars, gvars, pvars>>

(***************************************************************************)
(* Python string primitives.                                               *)
(***************************************************************************)
Char(s, i) == SubSeq(s, i, i)

\* f(x), with x evaluated once whatever the number of times f uses it
Once(f(_), x) == CHOOSE r \in {f(v) : v \in {x}} : TRUE

\* Python: p in s
Contains(s, p) ==
  \E i \in 1..(Len(s) - Len(p) + 1) : SubSeq(s, i, i + Len(p) - 1) = p

\* positions where p occurs in s
Occurrences(s, p) ==
  {i \in 1..(Len(s) - Len(p) + 1) : SubSeq(s, i, i + Len(p) - 1) = p}

SetMin(S) == CHOOSE x \in S : \A y \in S : x <= y

Digits == {"0", "1", "2", "3", "4", "5", "6", "7", "8", "9"}

Letters ==
  {"a", "b", "c", "d", "e", "f", "g", "h", "i", "j", "k", "l", "m",
   "n", "o", "p", "q", "r", "s", "t", "u", "v", "w", "x", "y", "z",
   "A", "B", "C", "D", "E", "F", "G", "H", "I", "J", "K", "L", "M",
   "N", "O", "P", "Q", "R", "S", "T", "U", "V", "W", "X", "Y", "Z"}

\* regular expression class \w
WordChars == Digits \cup Letters \cup {"_"}

\* regular expression class \s, and the characters str.strip() removes
SpaceChars == {" ", "\t", "\n", "\r"}

\* regular expression \b at the gap before position i of s (1..Len(s)+1)
WordBoundary(s, i) ==
  LET before == (i > 1) /\ (Char(s, i - 1) \in WordChars)
      after == (i <= Len(s)) /\ (Char(s, i) \in WordChars)
  IN before # after

\* first position >= i of s that holds no whitespace (Len(s)+1 if none): \s*
RECURSIVE SkipSpaces(_, _)
SkipSpaces(s, i) ==
  IF i <= Len(s) /\ Char(s, i) \in SpaceChars THEN SkipSpaces(s, i + 1) ELSE i

\* the longest run of digits of s that starts at position i: \d+ (or "")
RECURSIVE DigitRun(_, _)
DigitRun(s, i) ==
  IF i <= Len(s) /\ Char(s, i) \in Digits
  THEN Char(s, i) \o DigitRun(s, i + 1)
  ELSE ""

DigitValue(c) ==
  CASE c = "0" -> 0 [] c = "1" -> 1 [] c = "2" -> 2 [] c = "3" -> 3
    [] c = "4" -> 4 [] c = "5" -> 5 [] c = "6" -> 6 [] c = "7" -> 7
    [] c = "8" -> 8 [] c = "9" -> 9

\* value of a non-empty string of digits
RECURSIVE DigitsValue(_)
DigitsValue(d) ==
  IF Len(d) = 0 THEN 0
  ELSE 10 * DigitsValue(SubSeq(d, 1, Len(d) - 1)) + DigitValue(Char(d, Len(d)))

\* str.strip(): s without its leading and trailing whitespace
LStrip(s) == Once(LAMBDA t : SubSeq(t, SkipSpaces(t, 1), Len(t)), s)

\* last position <= i of s that holds no whitespace (0 if none)
RECURSIVE TrimEnd(_, _)
TrimEnd(s, i) ==
  IF i >= 1 /\ Char(s, i) \in SpaceChars THEN TrimEnd(s, i - 1) ELSE i

RStrip(s) == Once(LAMBDA t : SubSeq(t, 1, TrimEnd(t, Len(t))), s)

Strip(s) == LStrip(RStrip(s))

LowerChar(c) ==
  CASE c = "A" -> "a" [] c = "B" -> "b" [] c = "C" -> "c" [] c = "D" -> "d"
    [] c = "E" -> "e" [] c = "F" -> "f" [] c = "G" -> "g" [] c = "H" -> "h"
    [] c = "I" -> "i" [] c = "J" -> "j" [] c = "K" -> "k" [] c = "L" -> "l"
    [] c = "M" -> "m" [] c = "N" -> "n" [] c = "O" -> "o" [] c = "P" -> "p"
    [] c = "Q" -> "q" [] c = "R" -> "r" [] c = "S" -> "s" [] c = "T" -> "t"
    [] c = "U" -> "u" [] c = "V" -> "v" [] c = "W" -> "w" [] c = "X" -> "x"
    [] c = "Y" -> "y" [] c = "Z" -> "z"
    [] OTHER -> c

\* str.lower()
RECURSIVE LowerBetween(_, _, _)
LowerBetween(s, a, b) ==
  IF a > b THEN ""
  ELSE IF a = b THEN LowerChar(Char(s, a))
  ELSE LowerBetween(s, a, (a + b) \div 2) \o LowerBetween(s, (a + b) \div 2 + 1, b)

Lower(s) == Once(LAMBDA t : LowerBetween(t, 1, Len(t)), s)

\* str(n) for a natural number n
RECURSIVE ToStr(_)
ToStr(n) ==
  LET d == SubSeq("0123456789", (n % 10) + 1, (n % 10) + 1)
  IN IF n < 10 THEN d ELSE ToStr(n \div 10) \o d

\* s.split(sep, 1): the text before and the text after the first sep;
\* a single part when sep does not occur
Split1(s, sep) ==
  LET occ == Occurrences(s, sep)
  IN IF occ = {} THEN <<s>>
     ELSE <<SubSeq(s, 1, SetMin(occ) - 1),
            SubSeq(s, SetMin(occ) + Len(sep), Len(s))>>

\* the strings int() accepts after stripping: an optional sign and digits,
\* single underscores allowed between digits
IsDigitsWithUnderscores(d) ==
  /\ Len(d) > 0
  /\ \A i \in 1..Len(d) : Char(d, i) \in Digits \cup {"_"}
  /\ Char(d, 1) # "_" /\ Char(d, Len(d)) # "_"
  /\ \A i \in 1..(Len(d) - 1) : ~(Char(d, i) = "_" /\ Char(d, i + 1) = "_")

RECURSIVE DropUnderscores(_)
DropUnderscores(d) ==
  IF Len(d) = 0 THEN ""
  ELSE (IF Char(d, 1) = "_" THEN "" ELSE Char(d, 1))
          \o DropUnderscores(SubSeq(d, 2, Len(d)))

Unsigned(t) ==
  IF Len(t) > 0 /\ Char(t, 1) \in {"+", "-"} THEN SubSeq(t, 2, Len(t)) ELSE t

\* int(s) raises ValueError
IntFails(s) == ~IsDigitsWithUnderscores(Unsigned(Strip(s)))

\* int(s) when it does not raise
IntValue(s) ==
  LET t == Strip(s)
      v == DigitsValue(DropUnderscores(Unsigned(t)))
  IN IF Len(t) > 0 /\ Char(t, 1) = "-" THEN 0 - v ELSE v

UpperChar(c) ==
  CASE c = "a" -> "A" [] c = "b" -> "B" [] c = "c" -> "C" [] c = "d" -> "D"
    [] c = "e" -> "E" [] c = "f" -> "F" [] c = "g" -> "G" [] c = "h" -> "H"
    [] c = "i" -> "I" [] c = "j" -> "J" [] c = "k" -> "K" [] c = "l" -> "L"
    [] c = "m" -> "M" [] c = "n" -> "N" [] c = "o" -> "O" [] c = "p" -> "P"
    [] c = "q" -> "Q" [] c = "r" -> "R" [] c = "s" -> "S" [] c = "t" -> "T"
    [] c = "u" -> "U" [] c = "v" -> "V" [] c = "w" -> "W" [] c = "x" -> "X"
    [] c = "y" -> "Y" [] c = "z" -> "Z"
    [] OTHER -> c

\* str.upper()
RECURSIVE UpperBetween(_, _, _)
UpperBetween(s, a, b) ==
  IF a > b THEN ""
  ELSE IF a = b THEN UpperChar(Char(s, a))
  ELSE UpperBetween(s, a, (a + b) \div 2) \o UpperBetween(s, (a + b) \div 2 + 1, b)

Upper(s) == Once(LAMBDA t : UpperBetween(t, 1, Len(t)), s)

\* n copies of the character c
RECURSIVE Repeat(_, _)
Repeat(c, n) ==
  IF n <= 0 THEN ""
  ELSE LET half == Repeat(c, n \div 2)
       IN half \o half \o (IF n % 2 = 1 THEN c ELSE "")

\* f"{s:<w}": s padded with spaces on the right to width w (never cut)
PadRight(s, w) == Once(LAMBDA t : t \o Repeat(" ", w - Len(t)), s)

\* f"{x:.6f}" for a whole number of seconds x
Fmt6f(x) == ToStr(x) \o ".000000"

\* sep.join(parts)
RECURSIVE JoinFrom(_, _, _)
JoinFrom(sep, parts, i) ==
  IF i > Len(parts) THEN ""
  ELSE IF i = Len(parts) THEN parts[i]
  ELSE parts[i] \o sep \o JoinFrom(sep, parts, i + 1)

Join(sep, parts) == Once(LAMBDA p : JoinFrom(sep, p, 1), parts)

\* sum(len(part) for part in parts)
RECURSIVE SumLen(_)
SumLen(parts) == IF Len(parts) = 0 THEN 0 ELSE Len(parts[1]) + SumLen(Tail(parts))

\* line.split('|')[1] when the line holds a '|' (len(parts) >= 2)
SecondField(line) ==
  LET bars == Occurrences(line, "|")
      first == SetMin(bars)
      rest == {b \in bars : b > first}
      stop == IF rest = {} THEN Len(line) + 1 ELSE SetMin(rest)
  IN SubSeq(line, first + 1, stop - 1)

(***************************************************************************)
(* Classification of the primary solver's output (both drivers).           *)
(***************************************************************************)
\* re.search(r'\b0 solutions\b', stdout)
re_zero_solutions(stdout) ==
  \E i \in Occurrences(stdout, "0 solutions") :
     WordBoundary(stdout, i) /\ WordBoundary(stdout, i + Len("0 solutions"))

\* re.search(r'\[Number of solutions:\s*0\]', stdout)
re_number_of_solutions_0(stdout) ==
  \E i \in Occurrences(stdout, "[Number of solutions:") :
     LET j == SkipSpaces(stdout, i + Len("[Number of solutions:"))
     IN SubSeq(stdout, j, j + 1) = "0]"

\* is_sat_output with the zero-solutions test placed before the marker test
is_sat_output_zero_first(stdout) ==
  IF Contains(stdout, "0 solutions") \/ Contains(stdout, "No solutions")
       \/ Contains(stdout, "[Number of solutions: 0]")
  THEN FALSE
  ELSE \/ Contains(stdout, "--> Solution")
       \/ Contains(stdout, "[Solving time:") /\ Contains(stdout, "[Formula size:")

is_sat_output(stdout) ==
  IF Contains(stdout, "--> Solution") THEN TRUE
  ELSE IF Contains(stdout, "[Solving time:") /\ Contains(stdout, "[Formula size:")
       THEN ~Contains(stdout, "0 solutions") /\ ~Contains(stdout, "No solutions")
       ELSE FALSE

is_unsat_output(stdout) ==
  \/ Contains(stdout, "No solutions found")
  \/ re_zero_solutions(stdout)
  \/ re_number_of_solutions_0(stdout)

(***************************************************************************)
(* Clique size extraction of the clique driver's run_ursa / run_cliquer.   *)
(***************************************************************************)
\* re.search(label + r'\s*(\d+)', stdout): group 1 of the leftmost match,
\* "" when there is no match
re_label_int(stdout, label) ==
  LET starts == {i \in Occurrences(stdout, label) :
                   DigitRun(stdout, SkipSpaces(stdout, i + Len(label))) # ""}
  IN IF starts = {} THEN ""
     ELSE DigitRun(stdout, SkipSpaces(stdout, SetMin(starts) + Len(label)))

\* first digit at a position >= i of s with no newline before it (0 if none):
\* where the lazy .*? of r'Solution.*?(\d+)' stops
RECURSIVE FirstDigitOnLine(_, _)
FirstDigitOnLine(s, i) ==
  IF i > Len(s) \/ Char(s, i) = "\n" THEN 0
  ELSE IF Char(s, i) \in Digits THEN i
  ELSE FirstDigitOnLine(s, i + 1)

\* re.search(r'Solution.*?(\d+)', stdout): group 1, "" when there is no match
re_solution_int(stdout) ==
  LET starts == {i \in Occurrences(stdout, "Solution") :
                   FirstDigitOnLine(stdout, i + Len("Solution")) # 0}
  IN IF starts = {} THEN ""
     ELSE DigitRun(stdout, FirstDigitOnLine(stdout, SetMin(starts) + Len("Solution")))

\* the clique size run_ursa reads from the output (0 when no pattern matches)
ursa_clique_size(stdout) ==
  LET m1 == re_label_int(stdout, "Clique size:")
      m2 == IF m1 # "" THEN m1 ELSE re_label_int(stdout, "Maximum clique:")
      m3 == IF m2 # "" THEN m2 ELSE re_solution_int(stdout)
  IN IF m3 # "" THEN DigitsValue(m3) ELSE 0

\* re.search(r'size=(\d+)', stdout): group 1, "" when there is no match
re_size_eq(stdout) ==
  LET starts == {i \in Occurrences(stdout, "size=") :
                   DigitRun(stdout, i + Len("size=")) # ""}
  IN IF starts = {} THEN ""
     ELSE DigitRun(stdout, SetMin(starts) + Len("size="))

\* the clique size run_cliquer reads from the output: r'size=(\d+)'
cliquer_clique_size(stdout) ==
  LET m == re_size_eq(stdout)
  IN IF m # "" THEN DigitsValue(m) ELSE 0

(***************************************************************************)
(* ProcessRunner.  A child process is described by what the operating      *)
(* system lets the driver observe of it:                                   *)
(*   launch  Popen succeeded                                               *)
(*   intime  communicate(timeout=...) returned before the timeout          *)
(*   rc      the exit code (read only when intime)                         *)
(*   out     the text of stdout                                            *)
(*   wall    the measured wall-clock seconds between start and end         *)
(* A runner returns [status, elapsed, clique, killed]; killed tells that   *)
(* process.kill() was called.                                              *)
(***************************************************************************)
Ret(status, elapsed, clique, killed) ==
  [status |-> status, elapsed |-> elapsed, clique |-> clique, killed |-> killed]

\* before any runner has returned
NoRet == Ret("", 0, 0, FALSE)

\* the child process whose launch fails
NoProc == [launch |-> FALSE, intime |-> FALSE, rc |-> 0, out |-> "", wall |-> 0]

\* a child process whose launch fails (Popen raises) after one second
FailsToLaunch == [launch |-> FALSE, intime |-> FALSE, rc |-> 0, out |-> "", wall |-> 1]

\* run_ursa classifying the output before it looks at the exit code
sat_run_ursa_text_first(p, self_timeout) ==
  IF ~p.launch THEN Ret("ERROR", 0, 0, FALSE)
  ELSE IF ~p.intime THEN Ret("TIMEOUT", self_timeout, 0, TRUE)
  ELSE IF is_sat_output(p.out) THEN Ret("SAT", p.wall, 0, FALSE)
  ELSE IF is_unsat_output(p.out) THEN Ret("UNSAT", p.wall, 0, FALSE)
  ELSE IF p.rc = 0 THEN Ret("UNKNOWN", p.wall, 0, FALSE)
  ELSE Ret("ERROR", p.wall, 0, FALSE)

\* sat_starter.py run_ursa
sat_run_ursa(p, self_timeout) ==
  IF ~p.launch THEN Ret("ERROR", 0, 0, FALSE)
  ELSE IF ~p.intime THEN Ret("TIMEOUT", self_timeout, 0, TRUE)
  ELSE IF p.rc = 0
       THEN IF is_sat_output(p.out) THEN Ret("SAT", p.wall, 0, FALSE)
            ELSE IF is_unsat_output(p.out) THEN Ret("UNSAT", p.wall, 0, FALSE)
            ELSE Ret("UNKNOWN", p.wall, 0, FALSE)
       ELSE Ret("ERROR", p.wall, 0, FALSE)

\* run_minisat reporting the measured time of a run that timed out
run_minisat_measured(p, self_timeout) ==
  IF ~p.launch THEN Ret("ERROR", 0, 0, FALSE)
  ELSE IF ~p.intime THEN Ret("TIMEOUT", p.wall, 0, TRUE)
  ELSE IF p.rc = 10 THEN Ret("SAT", p.wall, 0, FALSE)
  ELSE IF p.rc = 20 THEN Ret("UNSAT", p.wall, 0, FALSE)
  ELSE Ret("ERROR", p.wall, 0, FALSE)

\* run_minisat reading the answer in the output when the exit code is 0
run_minisat_reads_output(p, self_timeout) ==
  IF ~p.launch THEN Ret("ERROR", 0, 0, FALSE)
  ELSE IF ~p.intime THEN Ret("TIMEOUT", self_timeout, 0, TRUE)
  ELSE IF p.rc = 10 \/ (p.rc = 0 /\ is_sat_output(p.out)) THEN Ret("SAT", p.wall, 0, FALSE)
  ELSE IF p.rc = 20 THEN Ret("UNSAT", p.wall, 0, FALSE)
  ELSE Ret("ERROR", p.wall, 0, FALSE)

\* sat_starter.py run_minisat
run_minisat(p, self_timeout) ==
  IF ~p.launch THEN Ret("ERROR", 0, 0, FALSE)
  ELSE IF ~p.intime THEN Ret("TIMEOUT", self_timeout, 0, TRUE)
  ELSE IF p.rc = 10 THEN Ret("SAT", p.wall, 0, FALSE)
  ELSE IF p.rc = 20 THEN Ret("UNSAT", p.wall, 0, FALSE)
  ELSE Ret("ERROR", p.wall, 0, FALSE)

\* cliqueK_starter.py run_ursa
clique_run_ursa(p, self_timeout) ==
  IF ~p.launch THEN Ret("ERROR", 0, 0, FALSE)
  ELSE IF ~p.intime THEN Ret("TIMEOUT", self_timeout, 0, TRUE)
  ELSE IF p.rc = 0
       THEN LET clique_size == ursa_clique_size(p.out)
            IN IF is_sat_output(p.out) \/ clique_size > 0
               THEN Ret("FOUND", p.wall, clique_size, FALSE)
               ELSE IF is_unsat_output(p.out) THEN Ret("NOT_FOUND", p.wall, 0, FALSE)
               ELSE Ret("UNKNOWN", p.wall, 0, FALSE)
       ELSE Ret("ERROR", p.wall, 0, FALSE)

\* run_cliquer reporting the time spent in a launch that failed
run_cliquer_launch_measured(p, self_timeout) ==
  IF ~p.launch THEN Ret("ERROR", p.wall, 0, FALSE)
  ELSE IF ~p.intime THEN Ret("TIMEOUT", self_timeout, 0, TRUE)
  ELSE LET clique_size == cliquer_clique_size(p.out)
       IN IF p.rc = 0 /\ clique_size > 0 THEN Ret("FOUND", p.wall, clique_size, FALSE)
          ELSE IF p.rc = 0 /\ clique_size = 0 THEN Ret("NOT_FOUND", p.wall, 0, FALSE)
          ELSE Ret("ERROR", p.wall, 0, FALSE)

\* cliqueK_starter.py run_cliquer
run_cliquer(p, self_timeout) ==
  IF ~p.launch THEN Ret("ERROR", 0, 0, FALSE)
  ELSE IF ~p.intime THEN Ret("TIMEOUT", self_timeout, 0, TRUE)
  ELSE LET clique_size == cliquer_clique_size(p.out)
       IN IF p.rc = 0 /\ clique_size > 0 THEN Ret("FOUND", p.wall, clique_size, FALSE)
          ELSE IF p.rc = 0 /\ clique_size = 0 THEN Ret("NOT_FOUND", p.wall, 0, FALSE)
          ELSE Ret("ERROR", p.wall, 0, FALSE)

(***************************************************************************)
(* Statistics: update_stats, write_final_statistics and the re-parsing of  *)
(* the FINAL STATISTICS section.  A report is a sequence of lines, each    *)
(* ending with its newline, as readlines() returns them.                   *)
(***************************************************************************)
\* time.strftime('%Y-%m-%d %H:%M:%S'): a sample time stamp
Timestamp == "2025-01-01 12:00:00"

\* sat_starter.py _initialize_empty_stats
sat_initialize_empty_stats ==
  [total |-> 0,
   ursa |-> [SAT |-> 0, UNSAT |-> 0, TIMEOUT |-> 0, ERROR |-> 0, UNKNOWN |-> 0],
   minisat |-> [SAT |-> 0, UNSAT |-> 0, TIMEOUT |-> 0, ERROR |-> 0],
   reduction |-> [SAT |-> 0, UNSAT |-> 0, TIMEOUT |-> 0, ERROR |-> 0, UNKNOWN |-> 0]]

\* cliqueK_starter.py _initialize_empty_stats
clique_initialize_empty_stats ==
  [total |-> 0,
   ursa |-> [found |-> 0, not_found |-> 0, timeout |-> 0, error |-> 0],
   cliquer |-> [found |-> 0, timeout |-> 0, error |-> 0],
   reduction |-> [found |-> 0, not_found |-> 0, timeout |-> 0, error |-> 0]]

\* sat_starter.py update_stats
sat_update_stats(st, res, red) ==
  LET s1 == [st EXCEPT !.total = @ + 1,
                          !.ursa[res.ursa_status] = @ + 1,
                          !.minisat[res.minisat_status] = @ + 1]
  IN IF red
     THEN [s1 EXCEPT !.reduction[res.reduction_status] = @ + 1]
     ELSE s1

\* the same counting UNKNOWN under 'not_found'
CliqueKey4_unknown_as_not_found(status) ==
  LET k == Lower(status)
  IN IF k = "found" THEN "found"
     ELSE IF k = "not_found" \/ k = "unknown" THEN "not_found"
     ELSE IF k = "timeout" THEN "timeout"
     ELSE "error"

\* the counter of a four-counter section that update_stats increments
CliqueKey4(status) ==
  LET k == Lower(status)
  IN IF k = "found" THEN "found"
     ELSE IF k = "not_found" THEN "not_found"
     ELSE IF k = "timeout" THEN "timeout"
     ELSE "error"

\* the counter of the Cliquer section that update_stats increments
CliqueKey3(status) ==
  LET k == Lower(status)
  IN IF k = "found" THEN "found"
     ELSE IF k = "timeout" THEN "timeout"
     ELSE "error"

\* cliqueK_starter.py update_stats
clique_update_stats(st, res, red) ==
  LET s1 == [st EXCEPT !.total = @ + 1,
                          !.ursa[CliqueKey4(res.ursa_status)] = @ + 1,
                          !.cliquer[CliqueKey3(res.cliquer_status)] = @ + 1]
  IN IF red
     THEN [s1 EXCEPT !.reduction[CliqueKey4(res.reduction_status)] = @ + 1]
     ELSE s1

\* sat_starter.py write_final_statistics: the lines written
sat_write_final_statistics(st, red) ==
  <<"\n", "FINAL STATISTICS:\n", "=================\n", "\n",
    "URSA Results:\n",
    "SAT instances:     " \o ToStr(st.ursa.SAT) \o "\n",
    "UNSAT instances:   " \o ToStr(st.ursa.UNSAT) \o "\n",
    "UNKNOWN instances: " \o ToStr(st.ursa.UNKNOWN) \o "\n",
    "TIMEOUT instances: " \o ToStr(st.ursa.TIMEOUT) \o "\n",
    "ERROR instances:   " \o ToStr(st.ursa.ERROR) \o "\n", "\n",
    "MiniSat Results:\n",
    "SAT instances:     " \o ToStr(st.minisat.SAT) \o "\n",
    "UNSAT instances:   " \o ToStr(st.minisat.UNSAT) \o "\n",
    "TIMEOUT instances: " \o ToStr(st.minisat.TIMEOUT) \o "\n",
    "ERROR instances:   " \o ToStr(st.minisat.ERROR) \o "\n", "\n">>
  \o (IF red
      THEN <<"Reduction Results:\n",
             "SAT instances:     " \o ToStr(st.reduction.SAT) \o "\n",
             "UNSAT instances:   " \o ToStr(st.reduction.UNSAT) \o "\n",
             "UNKNOWN instances: " \o ToStr(st.reduction.UNKNOWN) \o "\n",
             "TIMEOUT instances: " \o ToStr(st.reduction.TIMEOUT) \o "\n",
             "ERROR instances:   " \o ToStr(st.reduction.ERROR) \o "\n", "\n">>
      ELSE <<>>)
  \o <<"Total instances:   " \o ToStr(st.total) \o "\n",
       "Completed: " \o Timestamp \o "\n">>

\* cliqueK_starter.py write_final_statistics: the lines written
clique_write_final_statistics(st, red) ==
  <<"\n", "FINAL STATISTICS:\n", "=================\n", "\n",
    "URSA Results:\n",
    "Cliques found:     " \o ToStr(st.ursa.found) \o "\n",
    "Not found:         " \o ToStr(st.ursa.not_found) \o "\n",
    "Timeout:           " \o ToStr(st.ursa.timeout) \o "\n",
    "Error:             " \o ToStr(st.ursa.error) \o "\n", "\n",
    "Cliquer Results:\n",
    "Cliques found:     " \o ToStr(st.cliquer.found) \o "\n",
    "Timeout:           " \o ToStr(st.cliquer.timeout) \o "\n",
    "Error:             " \o ToStr(st.cliquer.error) \o "\n", "\n">>
  \o (IF red
      THEN <<"Reduction Results:\n",
             "Cliques found:     " \o ToStr(st.reduction.found) \o "\n",
             "Not found:         " \o ToStr(st.reduction.not_found) \o "\n",
             "Timeout:           " \o ToStr(st.reduction.timeout) \o "\n",
             "Error:             " \o ToStr(st.reduction.error) \o "\n", "\n">>
      ELSE <<>>)
  \o <<"Total instances:   " \o ToStr(st.total) \o "\n",
       "Completed: " \o Timestamp \o "\n">>

\* num_str = line.split(':', 1)[1].strip(); st[context][key] = int(num_str)
\* (an IndexError or ValueError leaves st as it is)
SetCounter(st, context, key, line) ==
  LET parts == Split1(line, ":")
  IN IF Len(parts) < 2 \/ IntFails(parts[2]) THEN st
     ELSE [st EXCEPT ![context][key] = IntValue(parts[2])]

\* sat_starter.py _parse_stat_line
sat_parse_stat_line(st, context, line) ==
  IF Contains(line, "SAT instances:") THEN SetCounter(st, context, "SAT", line)
  ELSE IF Contains(line, "UNSAT instances:") THEN SetCounter(st, context, "UNSAT", line)
  ELSE IF Contains(line, "TIMEOUT instances:") THEN SetCounter(st, context, "TIMEOUT", line)
  ELSE IF Contains(line, "ERROR instances:") THEN SetCounter(st, context, "ERROR", line)
  ELSE IF Contains(line, "UNKNOWN instances:") /\ context \in {"ursa", "reduction"}
       THEN SetCounter(st, context, "UNKNOWN", line)
  ELSE st

\* cliqueK_starter.py _parse_stat_line
clique_parse_stat_line(st, context, line) ==
  IF Contains(Lower(line), "cliques found:") THEN SetCounter(st, context, "found", line)
  ELSE IF Contains(Lower(line), "not found:") THEN SetCounter(st, context, "not_found", line)
  ELSE IF Contains(Lower(line), "timeout:") THEN SetCounter(st, context, "timeout", line)
  ELSE IF Contains(Lower(line), "error:") THEN SetCounter(st, context, "error", line)
  ELSE st

\* the 'Total instances:' branch resetting the total when int() raises
SetTotal_reset_on_error(st, line) ==
  LET parts == Split1(line, ":")
  IN IF Len(parts) < 2 \/ IntFails(parts[2]) THEN [st EXCEPT !.total = 0]
     ELSE [st EXCEPT !.total = IntValue(parts[2])]

\* the 'Total instances:' branch: st['total'] = int(...), errors ignored
SetTotal(st, line) ==
  LET parts == Split1(line, ":")
  IN IF Len(parts) < 2 \/ IntFails(parts[2]) THEN st
     ELSE [st EXCEPT !.total = IntValue(parts[2])]

\* no parsing context (current_context = None)
NoContext == "None"

\* one iteration of the loop of sat_starter.py _parse_statistics_section;
\* acc is [st, ctx]
sat_parse_statistics_line(acc, line) ==
  LET sw == IF Contains(line, "URSA Results:") THEN [st |-> acc.st, ctx |-> "ursa"]
            ELSE IF Contains(line, "MiniSat Results:")
                 THEN [st |-> acc.st, ctx |-> "minisat"]
            ELSE IF Contains(line, "Reduction Results:")
                 THEN [st |-> acc.st, ctx |-> "reduction"]
            ELSE IF Contains(line, "Total instances:")
                 THEN [st |-> SetTotal(acc.st, line), ctx |-> NoContext]
            ELSE acc
  IN IF sw.ctx # NoContext /\ Contains(line, "instances:")
     THEN [st |-> sat_parse_stat_line(sw.st, sw.ctx, line), ctx |-> sw.ctx]
     ELSE sw

\* one iteration of the loop of cliqueK_starter.py _parse_statistics_section
clique_parse_statistics_line(acc, line) ==
  LET sw == IF Contains(line, "URSA Results:") THEN [st |-> acc.st, ctx |-> "ursa"]
            ELSE IF Contains(line, "Cliquer Results:")
                 THEN [st |-> acc.st, ctx |-> "cliquer"]
            ELSE IF Contains(line, "Reduction Results:")
                 THEN [st |-> acc.st, ctx |-> "reduction"]
            ELSE IF Contains(line, "Total instances:")
                 THEN [st |-> SetTotal(acc.st, line), ctx |-> NoContext]
            ELSE acc
      low == Lower(line)
  IN IF sw.ctx # NoContext
        /\ (Contains(low, "found:") \/ Contains(low, "timeout:") \/ Contains(low, "error:"))
     THEN [st |-> clique_parse_stat_line(sw.st, sw.ctx, line), ctx |-> sw.ctx]
     ELSE sw

\* the loop of _parse_statistics_section from line i on; a line that
\* changes nothing is passed over
RECURSIVE SatParseFrom(_, _, _)
SatParseFrom(acc, lines, i) ==
  IF i > Len(lines) THEN acc
  ELSE LET next == sat_parse_statistics_line(acc, lines[i])
       IN IF next = acc THEN SatParseFrom(acc, lines, i + 1)
          ELSE SatParseFrom(next, lines, i + 1)

\* the loop of _parse_statistics_section from line i on; a line that
\* changes nothing is passed over
RECURSIVE CliqueParseFrom(_, _, _)
CliqueParseFrom(acc, lines, i) ==
  IF i > Len(lines) THEN acc
  ELSE LET next == clique_parse_statistics_line(acc, lines[i])
       IN IF next = acc THEN CliqueParseFrom(acc, lines, i + 1)
          ELSE CliqueParseFrom(next, lines, i + 1)

\* sat_starter.py _parse_statistics_section
sat_parse_statistics_section(stats_lines) ==
  SatParseFrom([st |-> sat_initialize_empty_stats, ctx |-> NoContext],
               stats_lines, 1).st

\* cliqueK_starter.py _parse_statistics_section
clique_parse_statistics_section(stats_lines) ==
  CliqueParseFrom([st |-> clique_initialize_empty_stats, ctx |-> NoContext],
                  stats_lines, 1).st

(***************************************************************************)
(* The report file: header, result rows, and what a resumed run reads   *)
(* back.  An input file is the sequence of the parts of its path.          *)
(***************************************************************************)
\* os.path.basename
basename(path) == path[Len(path)]

SatCategories == {"AIM", "DUBOIS", "PHOLE", "GCP", "PARITY", "JNH"}

CliqueCategories ==
  {"BROCK", "KELLER", "MANN", "P_HAT", "SAN", "SANR", "C-FAT", "HAMMING", "JOHNSON"}

\* extract_category of both drivers, over the driver's list of categories
extract_category(path, categories) ==
  LET hits == {k \in 1..Len(path) : Upper(path[k]) \in categories}
  IN IF hits = {} THEN "UNKNOWN" ELSE Upper(path[SetMin(hits)])

\* sat_starter.py write_header (save_urs off): the lines written
sat_write_header(red) ==
  LET header_parts ==
        <<PadRight("Category", 12), PadRight("File", 35), PadRight("Variables", 9),
          PadRight("Clauses", 8), PadRight("URSA", 8), PadRight("MiniSat", 8)>>
        \o (IF red THEN <<PadRight("Reduction", 10)>> ELSE <<>>)
        \o <<PadRight("URSA Time", 10), PadRight("MiniSat Time", 12)>>
        \o (IF red THEN <<PadRight("Reduction Time", 14)>> ELSE <<>>)
  IN <<"URSA Benchmark (solver_template) vs MiniSat"
         \o (IF red THEN " vs URSA Reduction (reduction_template)" ELSE "")
         \o "\n",
       "===============================================\n",
       "Started: " \o Timestamp \o "\n",
       "\n",
       Join(" | ", header_parts) \o "\n",
       Repeat("-", SumLen(header_parts) + 3 * (Len(header_parts) - 1)) \o "\n">>

\* cliqueK_starter.py write_header (save_urs off): the lines written
clique_write_header(red) ==
  LET header_parts ==
        <<PadRight("Category", 12), PadRight("File", 35), PadRight("Vertices", 9),
          PadRight("Edges", 8), PadRight("URSA", 12), PadRight("Cliquer", 12)>>
        \o (IF red THEN <<PadRight("Reduction", 12)>> ELSE <<>>)
        \o <<PadRight("URSA Time", 10), PadRight("Cliquer Time", 12)>>
        \o (IF red THEN <<PadRight("Red. Time", 10)>> ELSE <<>>)
        \o <<PadRight("URSA Clique", 12), PadRight("Cliq. Clique", 12)>>
        \o (IF red THEN <<PadRight("Red. Clique", 12)>> ELSE <<>>)
  IN <<"URSA vs Cliquer Max Clique Benchmark Results\n",
       "=============================================\n",
       "Started: " \o Timestamp \o "\n",
       "\n",
       Join(" | ", header_parts) \o "\n",
       Repeat("-", SumLen(header_parts) + 3 * (Len(header_parts) - 1)) \o "\n">>

\* the result row sat_starter.py benchmark_directory writes
sat_result_line(category, res, red) ==
  LET line_parts ==
        <<PadRight(category, 12), PadRight(res.file, 35),
          PadRight(ToStr(res.variables), 9), PadRight(ToStr(res.clauses), 8),
          PadRight(res.ursa_status, 8), PadRight(res.minisat_status, 8)>>
        \o (IF red THEN <<PadRight(res.reduction_status, 10)>> ELSE <<>>)
        \o <<PadRight(Fmt6f(res.ursa_time), 10),
             PadRight(Fmt6f(res.minisat_time), 12)>>
        \o (IF red THEN <<PadRight(Fmt6f(res.reduction_time), 14)>> ELSE <<>>)
  IN Join(" | ", line_parts) \o "\n"

\* the result row cliqueK_starter.py benchmark_directory writes (save_urs off)
clique_result_line(category, res, red) ==
  LET line_parts ==
        <<PadRight(category, 12), PadRight(res.file, 35),
          PadRight(ToStr(res.vertices), 9), PadRight(ToStr(res.edges), 8),
          PadRight(res.ursa_status, 12), PadRight(res.cliquer_status, 12)>>
        \o (IF red THEN <<PadRight(res.reduction_status, 12)>> ELSE <<>>)
        \o <<PadRight(Fmt6f(res.ursa_time), 10),
             PadRight(Fmt6f(res.cliquer_time), 12)>>
        \o (IF red THEN <<PadRight(Fmt6f(res.reduction_time), 10)>> ELSE <<>>)
        \o <<PadRight(ToStr(res.ursa_clique), 12),
             PadRight(ToStr(res.cliquer_clique), 12)>>
        \o (IF red THEN <<PadRight(ToStr(res.reduction_clique), 12)>> ELSE <<>>)
  IN Join(" | ", line_parts) \o "\n"

\* the test of _extract_processed_filenames on one line: the line is a
\* result row; exts are the driver's input-file extensions
IsResultLine(line, exts) ==
  /\ Contains(line, "|")
  /\ \E e \in exts : Contains(line, e)
  /\ \E e \in exts : Contains(Strip(SecondField(line)), e)

SatExts == {".cnf"}
CliqueExts == {".clq", ".txt"}

\* _extract_processed_filenames taking the first field of the row
extract_first_field(data_lines, exts) ==
  {Strip(Split1(data_lines[k], "|")[1]) :
     k \in {j \in 1..Len(data_lines) : IsResultLine(data_lines[j], exts)}}

\* _extract_processed_filenames of both drivers
extract_processed_filenames(data_lines, exts) ==
  {Strip(SecondField(data_lines[k])) :
     k \in {j \in 1..Len(data_lines) : IsResultLine(data_lines[j], exts)}}

\* index (from 1) of the first line holding 'FINAL STATISTICS:', 0 if none
final_stats_index(lines) ==
  LET hits == {k \in 1..Len(lines) : Contains(lines[k], "FINAL STATISTICS:")}
  IN IF hits = {} THEN 0 ELSE SetMin(hits)

\* prepare_output_file in append mode: the lines written back to the file
\* (Python's index > 0 is index > 1 here)
prepare_output_file(existing_lines) ==
  IF final_stats_index(existing_lines) > 1
  THEN SubSeq(existing_lines, 1, final_stats_index(existing_lines) - 1)
  ELSE existing_lines

\* the files of the list whose base name passes keep
RECURSIVE SelectFiles(_, _, _)
SelectFiles(files, processed, cont) ==
  IF Len(files) = 0 THEN <<>>
  ELSE IF cont /\ basename(files[1]) \in processed
       THEN SelectFiles(Tail(files), processed, cont)
       ELSE <<files[1]>> \o SelectFiles(Tail(files), processed, cont)

\* filter_files with the test of the processed names left out
filter_files_keep_all(files, processed, cont) ==
  [files_to_process |-> files, skipped_count |-> 0]

\* filter_files of both drivers: the list returned and skipped_count
filter_files(files, processed, cont) ==
  [files_to_process |-> SelectFiles(files, processed, cont),
   skipped_count |->
     Cardinality({k \in 1..Len(files) : cont /\ basename(files[k]) \in processed})]

(***************************************************************************)
(* The benchmark run controller.                                           *)
(***************************************************************************)
EmptyStats(d) ==
  IF d = "sat" THEN sat_initialize_empty_stats ELSE clique_initialize_empty_stats

Exts(d) == IF d = "sat" THEN SatExts ELSE CliqueExts

\* load_existing_results taking the rows of the whole file as data
load_existing_results_whole_file(d, exists, lines) ==
  IF ~exists
  THEN [processed_files |-> {}, existing_stats |-> EmptyStats(d)]
  ELSE LET fsi == final_stats_index(lines)
       IN [processed_files |-> extract_processed_filenames(lines, Exts(d)),
           existing_stats |->
             IF fsi = 0 THEN EmptyStats(d)
             ELSE IF d = "sat"
                  THEN sat_parse_statistics_section(SubSeq(lines, fsi, Len(lines)))
                  ELSE clique_parse_statistics_section(SubSeq(lines, fsi, Len(lines)))]

\* load_existing_results of both drivers: [processed_files, existing_stats]
load_existing_results(d, exists, lines) ==
  IF ~exists
  THEN [processed_files |-> {}, existing_stats |-> EmptyStats(d)]
  ELSE LET fsi == final_stats_index(lines)
           data_lines == IF fsi = 0 THEN lines ELSE SubSeq(lines, 1, fsi - 1)
           stats_lines == SubSeq(lines, fsi, Len(lines))
       IN [processed_files |-> extract_processed_filenames(data_lines, Exts(d)),
           existing_stats |->
             IF fsi = 0 THEN EmptyStats(d)
             ELSE IF d = "sat" THEN sat_parse_statistics_section(stats_lines)
             ELSE clique_parse_statistics_section(stats_lines)]

\* load_or_init_stats of both drivers
load_or_init_stats(d, cont, exists, lines) ==
  IF cont THEN load_existing_results(d, exists, lines)
  ELSE [processed_files |-> {}, existing_stats |-> EmptyStats(d)]

\* combined_stats that forgets the prior aggregate
combined_stats_new_only(existing, new) == new

\* combined_stats of benchmark_directory: the field-by-field sum
combined_stats(existing, new) ==
  [sec \in DOMAIN existing |->
     IF sec = "total" THEN existing.total + new.total
     ELSE [k \in DOMAIN existing[sec] |-> existing[sec][k] + new[sec][k]]]

update_stats(d, st, res, red) ==
  IF d = "sat" THEN sat_update_stats(st, res, red) ELSE clique_update_stats(st, res, red)

write_header(d, red) ==
  IF d = "sat" THEN sat_write_header(red) ELSE clique_write_header(red)

write_final_statistics(d, st, red) ==
  IF d = "sat" THEN sat_write_final_statistics(st, red)
  ELSE clique_write_final_statistics(st, red)

result_line(d, path, res, red) ==
  IF d = "sat"
  THEN sat_result_line(extract_category(path, SatCategories), res, red)
  ELSE clique_result_line(extract_category(path, CliqueCategories), res, red)

(***************************************************************************)
(* The parsers of the input files and the generators of the URS programs.  *)
(* A program is the sequence of its lines, each ending with its newline.   *)
(***************************************************************************)
\* str.startswith
StartsWith(s, p) == Len(s) >= Len(p) /\ SubSeq(s, 1, Len(p)) = p

\* s.split('\n')
RECURSIVE SplitLines(_)
SplitLines(s) ==
  LET occ == Occurrences(s, "\n")
  IN IF occ = {} THEN <<s>>
     ELSE <<SubSeq(s, 1, SetMin(occ) - 1)>>
            \o SplitLines(SubSeq(s, SetMin(occ) + 1, Len(s)))

\* first position >= i of s that holds whitespace (Len(s)+1 if none)
RECURSIVE SkipWord(_, _)
SkipWord(s, i) ==
  IF i <= Len(s) /\ Char(s, i) \notin SpaceChars THEN SkipWord(s, i + 1) ELSE i

\* s.split(): the words of s from position i on
RECURSIVE WordsFrom(_, _)
WordsFrom(s, i) ==
  LET a == SkipSpaces(s, i)
  IN IF a > Len(s) THEN <<>>
     ELSE <<SubSeq(s, a, SkipWord(s, a) - 1)>> \o WordsFrom(s, SkipWord(s, a))

\* s.split()
Words(s) == WordsFrom(s, 1)

\* f"{n}" for an integer n
IntStr(n) == IF n < 0 THEN "-" \o ToStr(0 - n) ELSE ToStr(n)

\* abs(n)
Abs(n) == IF n < 0 THEN 0 - n ELSE n

\* the header branch of both parsers: parts = line.split(); int(parts[2]),
\* int(parts[3]); an IndexError or ValueError is raised to the caller
HeaderRaises(parts) ==
  \/ Len(parts) < 3 \/ IntFails(parts[3])
  \/ Len(parts) < 4 \/ IntFails(parts[4])

\* before any file has been parsed
NoInstance == [raises |-> FALSE]

\* one iteration of the loop of sat_starter.py parse_dimacs; acc is
\* [raises, num_vars, num_clauses, clauses], raises telling that an exception
\* has left the function
sat_parse_line(acc, raw) ==
  LET line == Strip(raw)
      parts == Words(line)
      literals == SelectSeq(parts, LAMBDA x : x # "0")
  IN IF acc.raises THEN acc
     ELSE IF line = "" \/ StartsWith(line, "c") \/ StartsWith(line, "%") THEN acc
     ELSE IF StartsWith(line, "p cnf")
          THEN IF HeaderRaises(parts) THEN [acc EXCEPT !.raises = TRUE]
               ELSE [acc EXCEPT !.num_vars = IntValue(parts[3]),
                                !.num_clauses = IntValue(parts[4])]
     ELSE IF ~StartsWith(line, "p")
          THEN IF \E k \in 1..Len(literals) : IntFails(literals[k])
               THEN [acc EXCEPT !.raises = TRUE]
               ELSE IF literals = <<>> THEN acc
               ELSE [acc EXCEPT !.clauses =
                       Append(@, [k \in 1..Len(literals) |-> IntValue(literals[k])])]
     ELSE acc

RECURSIVE SatParseLines(_, _, _)
SatParseLines(acc, lines, i) ==
  IF i > Len(lines) THEN acc
  ELSE SatParseLines(sat_parse_line(acc, lines[i]), lines, i + 1)

\* sat_starter.py parse_dimacs
parse_dimacs(dimacs_content) ==
  SatParseLines([raises |-> FALSE, num_vars |-> 0, num_clauses |-> 0, clauses |-> <<>>],
                SplitLines(Strip(dimacs_content)), 1)

\* one iteration of the loop of cliqueK_starter.py parse_dimacs_graph; acc
\* is [raises, num_vertices, num_edges, edges]
clique_parse_line(acc, raw) ==
  LET line == Strip(raw)
      parts == Words(line)
  IN IF acc.raises THEN acc
     ELSE IF line = "" \/ StartsWith(line, "c") THEN acc
     ELSE IF StartsWith(line, "p edge") \/ StartsWith(line, "p col")
          THEN IF HeaderRaises(parts) THEN [acc EXCEPT !.raises = TRUE]
               ELSE [acc EXCEPT !.num_vertices = IntValue(parts[3]),
                                !.num_edges = IntValue(parts[4])]
     ELSE IF StartsWith(line, "e ") /\ Len(parts) >= 3
          THEN IF IntFails(parts[2]) \/ IntFails(parts[3])
               THEN [acc EXCEPT !.raises = TRUE]
               ELSE [acc EXCEPT !.edges =
                       Append(@, <<IntValue(parts[2]), IntValue(parts[3])>>)]
     ELSE acc

RECURSIVE CliqueParseLines(_, _, _)
CliqueParseLines(acc, lines, i) ==
  IF i > Len(lines) THEN acc
  ELSE CliqueParseLines(clique_parse_line(acc, lines[i]), lines, i + 1)

\* cliqueK_starter.py parse_dimacs_graph
parse_dimacs_graph(graph_content) ==
  CliqueParseLines([raises |-> FALSE, num_vertices |-> 0, num_edges |-> 0, edges |-> <<>>],
                   SplitLines(Strip(graph_content)), 1)

\* generate_urs_code writing the slot of the positive literal for both polarities
RECURSIVE LiteralStatements_no_polarity(_, _, _)
LiteralStatements_no_polarity(clause_idx, clause, k) ==
  IF k > Len(clause) THEN <<>>
  ELSE <<"bC[" \o IntStr(clause_idx) \o "][" \o IntStr(2 * (Abs(clause[k]) - 1))
            \o "] = true;\n">>
         \o LiteralStatements_no_polarity(clause_idx, clause, k + 1)

\* the statements generate_urs_code appends for the literals of one clause
\* from the k-th on
RECURSIVE LiteralStatements(_, _, _)
LiteralStatements(clause_idx, clause, k) ==
  IF k > Len(clause) THEN <<>>
  ELSE LET literal == clause[k]
           var_index == Abs(literal) - 1
           column == IF literal > 0 THEN 2 * var_index ELSE 2 * var_index + 1
       IN <<"bC[" \o IntStr(clause_idx) \o "][" \o IntStr(column) \o "] = true;\n">>
            \o LiteralStatements(clause_idx, clause, k + 1)

\* the statements generate_urs_code appends for the clauses from the c-th on
\* (enumerate counts from 0)
RECURSIVE ClauseStatements(_, _)
ClauseStatements(clauses, c) ==
  IF c > Len(clauses) THEN <<>>
  ELSE LiteralStatements(c - 1, clauses[c], 1) \o ClauseStatements(clauses, c + 1)

\* sat_starter.py generate_urs_code
sat_generate_urs_code(num_vars, num_clauses, clauses, template) ==
  <<"nN = " \o IntStr(num_vars) \o ";\n",
    "nClauses = " \o IntStr(num_clauses) \o ";\n",
    "\n",
    "for(ni=0; ni<nClauses; ni++) {\n",
    "    for(nj=0; nj<2*nN; nj++) {\n",
    "        bC[ni][nj] = false;\n",
    "    }\n",
    "}\n",
    "\n">>
  \o ClauseStatements(clauses, 1)
  \o <<"\n", template \o "\n">>

\* generate_urs_code appending only the first of the two statements of an edge
RECURSIVE EdgeStatements_one_way(_, _)
EdgeStatements_one_way(edges, k) ==
  IF k > Len(edges) THEN <<>>
  ELSE <<"bEdge[" \o IntStr(edges[k][1] - 1) \o "][" \o IntStr(edges[k][2] - 1)
            \o "] = true;\n">>
         \o EdgeStatements_one_way(edges, k + 1)

\* the statements generate_urs_code appends for the edges from the k-th on
RECURSIVE EdgeStatements(_, _)
EdgeStatements(edges, k) ==
  IF k > Len(edges) THEN <<>>
  ELSE LET v1_idx == edges[k][1] - 1
           v2_idx == edges[k][2] - 1
       IN <<"bEdge[" \o IntStr(v1_idx) \o "][" \o IntStr(v2_idx) \o "] = true;\n",
            "bEdge[" \o IntStr(v2_idx) \o "][" \o IntStr(v1_idx) \o "] = true;\n">>
            \o EdgeStatements(edges, k + 1)

\* cliqueK_starter.py generate_urs_code
clique_generate_urs_code(num_vertices, edges, template) ==
  <<"nN = " \o IntStr(num_vertices) \o ";\n",
    "\n",
    "// Initialize adjacency matrix\n",
    "for(i=0; i<nN; i++) {\n",
    "    for(j=0; j<nN; j++) {\n",
    "        bEdge[i][j] = false;\n",
    "    }\n",
    "}\n",
    "\n",
    "// Add edges (convert from 1-indexed to 0-indexed)\n">>
  \o EdgeStatements(edges, 1)
  \o <<"\n", template \o "\n">>

\* a child process that ends in time with exit code rc after printing out
Ends(rc, out, wall) ==
  [launch |-> TRUE, intime |-> TRUE, rc |-> rc, out |-> out, wall |-> wall]

\* a child process that is still running when the timeout expires
TimesOut == [launch |-> TRUE, intime |-> FALSE, rc |-> 0, out |-> "", wall |-> timeout + 1]

\* An input file of the benchmarked directory:
\*   path         the parts of its path
\*   ok, n1, n2   what parsing its content gives: ok = FALSE when parse_dimacs /
\*                parse_dimacs_graph raises, else the two counts of the header
\*   ursa         the process URSA shows on it with the solver template
\*   ref          the process the reference solver (MiniSat, Cliquer) shows on it
\*   red          the process URSA shows on it with the reduction template
InputFile(path, ok, n1, n2, ursa, ref, red) ==
  [path |-> path, ok |-> ok, n1 |-> n1, n2 |-> n2, ursa |-> ursa, ref |-> ref,
   red |-> red]

\* the texts of the files of the SAT pool, in the order of the pool
SatContents ==
  <<"c aim\np cnf 3 2\n1 -2 0\n2 3 0\n",
    "p cnf x 1\n1 0\n",
    "p cnf 2 1\n1 -2 0\n",
    "p cnf 10 12\n1 -10 0\n">>

\* what parse_dimacs makes of them
SatParsed == [k \in 1..Len(SatContents) |-> parse_dimacs(SatContents[k])]

\* the k-th file of the SAT pool
SatFile(k, path, ursa, ref, red) ==
  InputFile(path, ~SatParsed[k].raises, SatParsed[k].num_vars,
            SatParsed[k].num_clauses, ursa, ref, red)

SatPool ==
  <<SatFile(1, <<"bench", "aim", "a.cnf">>,
            Ends(0, "--> Solution", 1), Ends(10, "", 0), FailsToLaunch),
    SatFile(2, <<"bench", "aim", "c.cnf">>,
            Ends(0, "", 0), Ends(0, "", 0), Ends(0, "", 0)),
    SatFile(3, <<"bench", "b.cnf">>,
            Ends(0, "No solutions found", 0), FailsToLaunch, Ends(0, "", 1)),
    SatFile(4, <<"bench", "d.cnf">>,
            TimesOut, Ends(20, "", 0), Ends(0, "--> Solution", 0))>>

\* the texts of the files of the graph pool, in the order of the pool
CliqueContents ==
  <<"c c-fat\np edge 3 2\ne 1 2\ne 2 3\n",
    "p edge 3\ne 1 2\n",
    "p col 2 1\ne 1 2\n",
    "p edge 10 12\ne 1 10\n">>

\* what parse_dimacs_graph makes of them
CliqueParsed ==
  [k \in 1..Len(CliqueContents) |-> parse_dimacs_graph(CliqueContents[k])]

\* the k-th file of the graph pool
CliqueFile(k, path, ursa, ref, red) ==
  InputFile(path, ~CliqueParsed[k].raises, CliqueParsed[k].num_vertices,
            CliqueParsed[k].num_edges, ursa, ref, red)

CliquePool ==
  <<CliqueFile(1, <<"bench", "c-fat", "a.clq">>,
               Ends(0, "--> Solution", 1), TimesOut, FailsToLaunch),
    CliqueFile(2, <<"bench", "c-fat", "c.clq">>,
               Ends(0, "", 0), Ends(0, "", 0), Ends(0, "", 0)),
    CliqueFile(3, <<"bench", "b.txt">>,
               Ends(0, "No solutions found", 0), FailsToLaunch, Ends(0, "", 1)),
    CliqueFile(4, <<"bench", "d.txt">>,
               TimesOut, Ends(1, "", 0), Ends(0, "Clique size: 2", 0))>>

Pool(d) == IF d = "sat" THEN SatPool ELSE CliquePool

\* A directory whose subdirectories hold files with the same base name, as
\* os.walk and sorted list it: copies of files of the pool under other paths
NestedPaths(d) ==
  IF d = "sat"
  THEN <<<<"bench", "aim", "a.cnf">>, <<"bench", "b.cnf">>,
         <<"bench", "jnh", "a.cnf">>, <<"bench", "jnh", "b.cnf">>>>
  ELSE <<<<"bench", "c-fat", "a.clq">>, <<"bench", "b.txt">>,
         <<"bench", "dsjc", "a.clq">>, <<"bench", "dsjc", "b.txt">>>>

NestedPool(d) ==
  [k \in 1..4 |-> [Pool(d)[<<1, 3, 4, 2>>[k]] EXCEPT !.path = NestedPaths(d)[k]]]

NoResult == [file |-> ""]
NoRun == [n |-> 0, cont |-> FALSE, red |-> FALSE, end |-> "none"]

\* the current run, ending the way given
ThisRun(end) ==
  [n |-> Len(dir), cont |-> continue_mode, red |-> has_reduction, end |-> end]

InLoop == pc \in {"loop", "ursa", "ref", "red", "row", "flush"}

CurrentFile == files_to_process[idx]

InitRun ==
  /\ driver \in {"sat", "clique"}
  /\ dir = <<>>
  /\ report_exists = FALSE
  /\ report = <<>>
  /\ f_buffer = <<>>
  /\ pc = "idle"
  /\ continue_mode = FALSE
  /\ has_reduction = FALSE
  /\ processed_files = {}
  /\ existing_stats = EmptyStats(driver)
  /\ stats = EmptyStats(driver)
  /\ files_to_process = <<>>
  /\ idx = 1
  /\ skipped_count = 0
  /\ result = NoResult
  /\ started = {}
  /\ run_results = <<>>
  /\ completed = <<>>
  /\ rowlog = <<>>
  /\ base_lines = <<>>
  /\ final_stats = EmptyStats(driver)
  /\ last_run = NoRun
  /\ prev_run = NoRun
  /\ nruns = 0

\* no solver process has been launched
NoChildren ==
  /\ alive = {}
  /\ concurrent = 0

\* no file has been read
IdleGenerator ==
  /\ content = ""
  /\ instance = NoInstance
  /\ urs_code = <<>>
  /\ generated = <<>>
  /\ gpc = "idle"

\* benchmark_directory up to the loop, with continue_mode = cont, a reduction
\* template configured iff red, on the directory of the first n files of the
\* given pool (main passes the same path, args.output, as self.output_file and as
\* output_file, so the file loaded is the file written): load_or_init_stats,
\* find_dimacs_files, filter_files, prepare_output_file,
\* open(output_file, file_mode), write_header
Begin(pool, cont, loaded, kept) ==
  LET append == cont /\ report_exists
  IN \E n \in 1..NumFiles, red \in BOOLEAN :
       LET files == SubSeq(pool, 1, n)
           filtered == filter_files([k \in 1..n |-> files[k].path],
                                    loaded.processed_files, cont)
       IN /\ processed_files' = loaded.processed_files
          /\ existing_stats' = loaded.existing_stats
          /\ files_to_process' = filtered.files_to_process
          /\ skipped_count' = filtered.skipped_count
          /\ report' = kept
          /\ base_lines' = kept
          /\ f_buffer' = IF append THEN <<>> ELSE write_header(driver, red)
          /\ rowlog' = IF append THEN rowlog ELSE <<>>
          /\ dir' = files
          /\ continue_mode' = cont
          /\ has_reduction' = red
          /\ prev_run' = IF cont THEN last_run ELSE NoRun

StartRunIn(pool) ==
  /\ pc = "idle"
  /\ nruns < MaxRuns
  /\ \E cont \in BOOLEAN :
       Begin(pool, cont, load_or_init_stats(driver, cont, report_exists, report),
             IF cont /\ report_exists THEN prepare_output_file(report) ELSE <<>>)
  /\ report_exists' = TRUE
  /\ stats' = EmptyStats(driver)
  /\ idx' = 1
  /\ result' = NoResult
  /\ pc' = "loop"
  /\ started' = {}
  /\ run_results' = <<>>
  /\ completed' = <<>>
  /\ nruns' = nruns + 1
  /\ alive' = {}
  /\ concurrent' = 0
  /\ UNCHANGED <<timeout, gvars, cvars, driver, final_stats, last_run>>

\* a run over the flat directory
StartRun == StartRunIn(Pool(driver))

\* a run over the directory with subdirectories
StartRunNested == StartRunIn(NestedPool(driver))

\* the input file of the directory with this path
FileAt(path) == CHOOSE f \in {dir[k] : k \in 1..Len(dir)} : f.path = path

\* benchmark_file letting the exception of the parser end the run
BeginFile_parse_error_aborts ==
  /\ pc = "loop"
  /\ idx <= Len(files_to_process)
  /\ LET f == FileAt(CurrentFile)
         file_name == basename(CurrentFile)
     IN IF continue_mode /\ file_name \in processed_files
        THEN /\ idx' = idx + 1
             /\ UNCHANGED <<pc, result>>
        ELSE IF ~f.ok
        THEN /\ pc' = "aborted"
             /\ UNCHANGED <<idx, result>>
        ELSE /\ pc' = "ursa"
             /\ result' = IF driver = "sat"
                          THEN [file |-> file_name, variables |-> f.n1, clauses |-> f.n2]
                          ELSE [file |-> file_name, vertices |-> f.n1, edges |-> f.n2]
             /\ UNCHANGED idx
  /\ UNCHANGED <<timeout, pvars, gvars, cvars, driver, dir, report_exists, report, f_buffer,
                 continue_mode, has_reduction, processed_files, existing_stats,
                 stats, files_to_process, skipped_count, hvars>>

\* benchmark_file going on to the solvers with zero counts when the parser
\* raised
BeginFile_parse_error_ignored ==
  /\ pc = "loop"
  /\ idx <= Len(files_to_process)
  /\ LET f == FileAt(CurrentFile)
         file_name == basename(CurrentFile)
     IN IF continue_mode /\ file_name \in processed_files
        THEN /\ idx' = idx + 1
             /\ UNCHANGED <<pc, result>>
        ELSE /\ pc' = "ursa"
             /\ result' = IF driver = "sat"
                          THEN [file |-> file_name, variables |-> f.n1, clauses |-> f.n2]
                          ELSE [file |-> file_name, vertices |-> f.n1, edges |-> f.n2]
             /\ UNCHANGED idx
  /\ UNCHANGED <<timeout, pvars, gvars, cvars, driver, dir, report_exists, report, f_buffer,
                 continue_mode, has_reduction, processed_files, existing_stats,
                 stats, files_to_process, skipped_count, hvars>>

\* benchmark_file up to the first solver: the skip test and the parsing;
\* a skipped or unparsable file returns None and the loop continues
BeginFile ==
  /\ pc = "loop"
  /\ idx <= Len(files_to_process)
  /\ LET f == FileAt(CurrentFile)
         file_name == basename(CurrentFile)
     IN IF (continue_mode /\ file_name \in processed_files) \/ ~f.ok
        THEN /\ idx' = idx + 1
             /\ UNCHANGED <<pc, result>>
        ELSE /\ pc' = "ursa"
             /\ result' = IF driver = "sat"
                          THEN [file |-> file_name, variables |-> f.n1, clauses |-> f.n2]
                          ELSE [file |-> file_name, vertices |-> f.n1, edges |-> f.n2]
             /\ UNCHANGED idx
  /\ UNCHANGED <<timeout, pvars, gvars, cvars, driver, dir, report_exists, report, f_buffer,
                 continue_mode, has_reduction, processed_files, existing_stats,
                 stats, files_to_process, skipped_count, hvars>>

\* r extended with the fields of s
Extend(r, s) ==
  [k \in DOMAIN r \cup DOMAIN s |-> IF k \in DOMAIN s THEN s[k] ELSE r[k]]

\* run_with_template / run_ursa on the child process p
UrsaOf(p) ==
  IF driver = "sat" THEN sat_run_ursa(p, timeout) ELSE clique_run_ursa(p, timeout)

\* run_minisat / run_cliquer on the child process p
ReferenceOf(p) ==
  IF driver = "sat" THEN run_minisat(p, timeout) ELSE run_cliquer(p, timeout)

\* benchmark_file: the result with the fields of the solver run r
WithUrsa(r) ==
  IF driver = "sat"
  THEN Extend(result, [ursa_status |-> r.status, ursa_time |-> r.elapsed])
  ELSE Extend(result, [ursa_status |-> r.status, ursa_time |-> r.elapsed,
                       ursa_clique |-> r.clique])

\* benchmark_file: the result with the fields of the reference run r
WithReference(r) ==
  IF driver = "sat"
  THEN Extend(result, [minisat_status |-> r.status, minisat_time |-> r.elapsed])
  ELSE Extend(result, [cliquer_status |-> r.status, cliquer_time |-> r.elapsed,
                       cliquer_clique |-> r.clique])

\* benchmark_file: the result with the fields of the reduction run r
WithReduction(r) ==
  IF driver = "sat"
  THEN Extend(result, [reduction_status |-> r.status, reduction_time |-> r.elapsed])
  ELSE Extend(result, [reduction_status |-> r.status, reduction_time |-> r.elapsed,
                       reduction_clique |-> r.clique])

\* The children of the driver around one call of a runner that starts the
\* process p as child: Popen adds a child to those still alive; reaped tells
\* that the runner returns only after the child has exited (communicate()
\* returned), otherwise the child was sent SIGKILL and not waited for
Children(p, child, reaped) ==
  /\ concurrent' = IF p.launch /\ Cardinality(alive) + 1 > concurrent
                   THEN Cardinality(alive) + 1 ELSE concurrent
  /\ alive' = IF p.launch /\ ~reaped THEN alive \cup {child} ELSE alive

\* benchmark_file: run_with_template with the solver template
RunUrsa ==
  /\ pc = "ursa"
  /\ result' = Once(WithUrsa, Once(UrsaOf, FileAt(CurrentFile).ursa))
  /\ started' = IF FileAt(CurrentFile).ursa.launch
                THEN started \cup {<<result.file, "ursa">>} ELSE started
  /\ pc' = "ref"
  /\ Children(FileAt(CurrentFile).ursa, <<result.file, "ursa">>, TRUE)
  /\ UNCHANGED <<timeout, gvars, cvars, driver, dir, report_exists, report, f_buffer,
                 continue_mode, has_reduction, processed_files, existing_stats,
                 stats, files_to_process, idx, skipped_count, run_results,
                 completed, rowlog, base_lines, final_stats, last_run, prev_run, nruns>>

\* benchmark_file: run_minisat / run_cliquer
RunReference ==
  /\ pc = "ref"
  /\ result' = Once(WithReference, Once(ReferenceOf, FileAt(CurrentFile).ref))
  /\ started' = IF FileAt(CurrentFile).ref.launch
                THEN started \cup {<<result.file, "reference">>} ELSE started
  /\ pc' = IF has_reduction THEN "red" ELSE "row"
  /\ Children(FileAt(CurrentFile).ref, <<result.file, "reference">>, FileAt(CurrentFile).ref.intime)
  /\ UNCHANGED <<timeout, gvars, cvars, driver, dir, report_exists, report, f_buffer,
                 continue_mode, has_reduction, processed_files, existing_stats,
                 stats, files_to_process, idx, skipped_count, run_results,
                 completed, rowlog, base_lines, final_stats, last_run, prev_run, nruns>>

\* benchmark_file: run_with_template with the reduction template
RunReduction ==
  /\ pc = "red"
  /\ result' = Once(WithReduction, Once(UrsaOf, FileAt(CurrentFile).red))
  /\ started' = IF FileAt(CurrentFile).red.launch
                THEN started \cup {<<result.file, "reduction">>} ELSE started
  /\ pc' = "row"
  /\ Children(FileAt(CurrentFile).red, <<result.file, "reduction">>, TRUE)
  /\ UNCHANGED <<timeout, gvars, cvars, driver, dir, report_exists, report, f_buffer,
                 continue_mode, has_reduction, processed_files, existing_stats,
                 stats, files_to_process, idx, skipped_count, run_results,
                 completed, rowlog, base_lines, final_stats, last_run, prev_run, nruns>>

\* benchmark_directory: update_stats and f.write of the result row
WriteRow ==
  /\ pc = "row"
  /\ stats' = update_stats(driver, stats, result, has_reduction)
  /\ f_buffer' = Append(f_buffer, result_line(driver, CurrentFile, result, has_reduction))
  /\ run_results' = Append(run_results, result)
  /\ pc' = "flush"
  /\ UNCHANGED <<timeout, pvars, gvars, cvars, driver, dir, report_exists, report,
                 continue_mode, has_reduction, processed_files, existing_stats,
                 files_to_process, idx, skipped_count, result, started,
                 completed, rowlog, base_lines, final_stats, last_run, prev_run, nruns>>

\* benchmark_directory: f.flush(), and on to the next file
Flush ==
  /\ pc = "flush"
  /\ report' = report \o f_buffer
  /\ f_buffer' = <<>>
  /\ idx' = idx + 1
  /\ pc' = "loop"
  /\ completed' = Append(completed, result.file)
  /\ rowlog' = Append(rowlog, result)
  /\ UNCHANGED <<timeout, pvars, gvars, cvars, driver, dir, report_exists,
                 continue_mode, has_reduction, processed_files, existing_stats,
                 stats, files_to_process, skipped_count, result, started,
                 run_results, base_lines, final_stats, last_run, prev_run, nruns>>

\* benchmark_directory after the loop: combined_stats, write_final_statistics
\* and the close of the file at the end of the with block
Finalize ==
  /\ pc = "loop"
  /\ idx > Len(files_to_process)
  /\ LET combined == combined_stats(existing_stats, stats)
     IN /\ report' = report \o f_buffer
                       \o write_final_statistics(driver, combined, has_reduction)
        /\ final_stats' = combined
  /\ f_buffer' = <<>>
  /\ pc' = "idle"
  /\ last_run' = ThisRun("final")
  /\ UNCHANGED <<timeout, pvars, gvars, cvars, driver, dir, report_exists,
                 continue_mode, has_reduction, processed_files, existing_stats,
                 stats, files_to_process, idx, skipped_count, result, started,
                 run_results, completed, rowlog, base_lines, prev_run, nruns>>

\* the memory of a process that has ended without finalizing: the values of
\* benchmark_directory's locals are gone, and so is the record of its run
Forgotten ==
  /\ dir' = <<>>
  /\ continue_mode' = FALSE
  /\ has_reduction' = FALSE
  /\ processed_files' = {}
  /\ existing_stats' = EmptyStats(driver)
  /\ stats' = EmptyStats(driver)
  /\ files_to_process' = <<>>
  /\ idx' = 1
  /\ skipped_count' = 0
  /\ result' = NoResult
  /\ started' = {}
  /\ run_results' = <<>>
  /\ completed' = <<>>
  /\ prev_run' = NoRun

\* the process is killed inside the loop: what was not flushed is lost
Kill ==
  /\ InLoop
  /\ f_buffer' = <<>>
  /\ pc' = "idle"
  /\ last_run' = ThisRun("crash")
  /\ Forgotten
  /\ UNCHANGED <<timeout, pvars, gvars, cvars, driver, report_exists, report,
                 rowlog, base_lines, final_stats, nruns>>

\* the run is interrupted inside the loop (KeyboardInterrupt): the with
\* block closes the file, which flushes what was written
Interrupt ==
  /\ InLoop
  /\ report' = report \o f_buffer
  /\ f_buffer' = <<>>
  /\ rowlog' = IF pc = "flush" THEN Append(rowlog, result) ELSE rowlog
  /\ pc' = "idle"
  /\ last_run' = ThisRun("crash")
  /\ Forgotten
  /\ UNCHANGED <<timeout, pvars, gvars, cvars, driver, report_exists,
                 base_lines, final_stats, nruns>>

\* a child that was sent SIGKILL exits
ChildExits ==
  /\ \E child \in alive : alive' = alive \ {child}
  /\ UNCHANGED <<timeout, concurrent, gvars, cvars, rvars, hvars>>

Init ==
  /\ timeout = MaxTimeout
  /\ proc = NoProc
  /\ ran = "none"
  /\ ret = NoRet
  /\ InitRun
  /\ IdleGenerator
  /\ NoChildren

Next ==
  \/ StartRun
  \/ BeginFile
  \/ RunUrsa
  \/ RunReference
  \/ RunReduction
  \/ WriteRow
  \/ Flush
  \/ Finalize
  \/ Kill
  \/ Interrupt
  \/ ChildExits

Spec == Init /\ [][Next]_vars

\* the runs over the directory with subdirectories
NextNested ==
  \/ StartRunNested
  \/ BeginFile
  \/ RunUrsa
  \/ RunReference
  \/ RunReduction
  \/ WriteRow
  \/ Flush
  \/ Finalize
  \/ Kill
  \/ Interrupt
  \/ ChildExits

SpecNested == Init /\ [][NextNested]_vars

(***************************************************************************)
(* Specification of the runs that are not killed or interrupted.  The loop *)
(* of benchmark_directory is sequential code: when a call returns, the     *)
(* next statement is executed, and every solver call returns (communicate  *)
(* is given a timeout), so a step of a run that is enabled is eventually   *)
(* taken.  Whether another run is started is up to the user.               *)
(***************************************************************************)
Step ==
  BeginFile \/ RunUrsa \/ RunReference \/ RunReduction \/ WriteRow \/ Flush \/ Finalize

NextBatch ==
  \/ StartRun
  \/ BeginFile
  \/ RunUrsa
  \/ RunReference
  \/ RunReduction
  \/ WriteRow
  \/ Flush
  \/ Finalize
  \/ ChildExits

SpecBatch == Init /\ [][NextBatch]_vars /\ WF_vars(Step)

(***************************************************************************)
(* Specification of the statistics section alone: results are counted by   *)
(* update_stats, the statistics are written by write_final_statistics and  *)
(* read back by _parse_statistics_section.                                 *)
(***************************************************************************)
\* the statuses run_ursa returns
UrsaStatuses(d) ==
  IF d = "sat" THEN {"SAT", "UNSAT", "UNKNOWN", "TIMEOUT", "ERROR"}
  ELSE {"FOUND", "NOT_FOUND", "UNKNOWN", "TIMEOUT", "ERROR"}

\* the statuses run_minisat / run_cliquer return
RefStatuses(d) ==
  IF d = "sat" THEN {"SAT", "UNSAT", "TIMEOUT", "ERROR"}
  ELSE {"FOUND", "NOT_FOUND", "TIMEOUT", "ERROR"}

StatusResult(d, us, rs, ds) ==
  LET r == IF d = "sat" THEN [ursa_status |-> us, minisat_status |-> rs]
           ELSE [ursa_status |-> us, cliquer_status |-> rs]
  IN IF ds = "" THEN r ELSE Extend(r, [reduction_status |-> ds])

InitStats ==
  /\ timeout = MaxTimeout
  /\ proc = NoProc
  /\ ran = "none"
  /\ ret = NoRet
  /\ driver \in {"sat", "clique"}
  /\ has_reduction \in BOOLEAN
  /\ dir = <<>>
  /\ report_exists = FALSE
  /\ report = <<>>
  /\ f_buffer = <<>>
  /\ pc = "count"
  /\ continue_mode = FALSE
  /\ processed_files = {}
  /\ existing_stats = EmptyStats(driver)
  /\ stats = EmptyStats(driver)
  /\ files_to_process = <<>>
  /\ idx = 1
  /\ skipped_count = 0
  /\ result = NoResult
  /\ started = {}
  /\ run_results = <<>>
  /\ completed = <<>>
  /\ rowlog = <<>>
  /\ base_lines = <<>>
  /\ final_stats = EmptyStats(driver)
  /\ last_run = NoRun
  /\ prev_run = NoRun
  /\ nruns = 0
  /\ IdleGenerator
  /\ NoChildren

\* update_stats on one more result
StatsUpdate ==
  /\ pc = "count"
  /\ stats.total < MaxCounted
  /\ \E us \in UrsaStatuses(driver), rs \in RefStatuses(driver),
        ds \in IF has_reduction THEN UrsaStatuses(driver) ELSE {""} :
        /\ result' = StatusResult(driver, us, rs, ds)
        /\ stats' = update_stats(driver, stats, result', has_reduction)
  /\ UNCHANGED <<timeout, pvars, gvars, cvars, driver, dir, report_exists, report, f_buffer, pc,
                 continue_mode, has_reduction, processed_files, existing_stats,
                 files_to_process, idx, skipped_count, hvars>>

\* write_final_statistics into an empty file, after the loop over the results
StatsWrite ==
  /\ pc = "count"
  /\ report' = write_final_statistics(driver, stats, has_reduction)
  /\ result' = NoResult
  /\ pc' = "written"
  /\ UNCHANGED <<timeout, pvars, gvars, cvars, driver, dir, report_exists, f_buffer,
                 continue_mode, has_reduction, processed_files, existing_stats,
                 stats, files_to_process, idx, skipped_count, hvars>>

\* _parse_statistics_section on the lines written
StatsParse ==
  /\ pc = "written"
  /\ existing_stats' = IF driver = "sat" THEN sat_parse_statistics_section(report)
                       ELSE clique_parse_statistics_section(report)
  /\ pc' = "parsed"
  /\ UNCHANGED <<timeout, pvars, gvars, cvars, driver, dir, report_exists, report, f_buffer,
                 continue_mode, has_reduction, processed_files,
                 stats, files_to_process, idx, skipped_count, result, hvars>>

NextStats == StatsUpdate \/ StatsWrite \/ StatsParse

SpecStats == InitStats /\ [][NextStats]_vars

(***************************************************************************)
(* Specification of the ProcessRunner and OutputClassifier: a child        *)
(* process with any observable behaviour is handed to one of the runners.  *)
(***************************************************************************)
\* fragments of solver output
Chunks ==
  {"--> Solution", "[Solving time:", "[Formula size:", "0 solutions",
   "No solutions", " found", "[Number of solutions: 0]", "1",
   "Clique size: 2", "size=3"}

\* the texts made of at most n fragments
RECURSIVE OutputsOf(_)
OutputsOf(n) ==
  IF n = 0 THEN {""}
  ELSE LET prev == OutputsOf(n - 1)
       IN prev \cup {o \o c : o \in prev, c \in Chunks}

ExitCodes == {0, 1, 10, 20}

\* the observable behaviours of a child process under timeout t
Behaviours(t) ==
  {NoProc}
    \cup [launch : {TRUE}, intime : {FALSE}, rc : {0}, out : OutputsOf(MaxChunks),
          wall : {t + 1}]
    \cup [launch : {TRUE}, intime : {TRUE}, rc : ExitCodes, out : OutputsOf(MaxChunks),
          wall : {0, t}]

InitClassify ==
  /\ timeout \in 1..MaxTimeout
  /\ proc \in Behaviours(timeout)
  /\ ran = "none"
  /\ ret = NoRet
  /\ InitRun
  /\ driver = "sat"
  /\ IdleGenerator
  /\ NoChildren

SatRunUrsa ==
  /\ ran = "none"
  /\ ran' = "sat_ursa"
  /\ ret' = sat_run_ursa(proc, timeout)
  /\ UNCHANGED <<timeout, pvars, gvars, proc, rvars, hvars>>

RunMinisat ==
  /\ ran = "none"
  /\ ran' = "minisat"
  /\ ret' = run_minisat(proc, timeout)
  /\ UNCHANGED <<timeout, pvars, gvars, proc, rvars, hvars>>

CliqueRunUrsa ==
  /\ ran = "none"
  /\ ran' = "clique_ursa"
  /\ ret' = clique_run_ursa(proc, timeout)
  /\ UNCHANGED <<timeout, pvars, gvars, proc, rvars, hvars>>

RunCliquer ==
  /\ ran = "none"
  /\ ran' = "cliquer"
  /\ ret' = run_cliquer(proc, timeout)
  /\ UNCHANGED <<timeout, pvars, gvars, proc, rvars, hvars>>

NextClassify == SatRunUrsa \/ RunMinisat \/ CliqueRunUrsa \/ RunCliquer

SpecClassify == InitClassify /\ [][NextClassify]_vars

(***************************************************************************)
(* Specification of the parsers and generators alone: an input file is     *)
(* read, parsed as benchmark_file parses it, and its URS programs are      *)
(* generated as run_with_template generates them (once per template).      *)
(***************************************************************************)
\* the longest input file, in lines
MaxLines == 3

\* the most calls of generate_urs_code for one instance
MaxCalls == 2

\* longest prior report, in lines, that load_existing_results is given
MaxReportLines == 3

\* lines of DIMACS CNF files
SatLines ==
  {"p cnf 2 1", "p cnf x 1", "c note", "1 -2 0", "-1 3 0", "", "0"}

\* lines of DIMACS graph files
CliqueLines ==
  {"p edge 3 2", "p col 2 x", "c note", "e 1 2", "e 2 3", "e 4 0"}

\* the texts of at most n lines, each line ended by its newline
RECURSIVE TextsOf(_, _)
TextsOf(lines, n) ==
  IF n = 0 THEN {""}
  ELSE LET prev == TextsOf(lines, n - 1)
       IN prev \cup {l \o "\n" \o t : l \in lines, t \in prev}

\* the solver and reduction templates (self.solver_template,
\* self.reduction_template)
Templates == {"assert(bSolver);", "assert(bReduction);"}

InitGenerate ==
  /\ timeout = MaxTimeout
  /\ proc = NoProc
  /\ ran = "none"
  /\ ret = NoRet
  /\ InitRun
  /\ content \in TextsOf(IF driver = "sat" THEN SatLines ELSE CliqueLines, MaxLines)
  /\ instance = NoInstance
  /\ urs_code = <<>>
  /\ generated = <<>>
  /\ gpc = "read"
  /\ NoChildren

\* benchmark_file: the file is parsed; an exception makes it return None
Parse ==
  /\ gpc = "read"
  /\ instance' = IF driver = "sat" THEN parse_dimacs(content)
                 ELSE parse_dimacs_graph(content)
  /\ gpc' = IF instance'.raises THEN "failed" ELSE "parsed"
  /\ UNCHANGED <<timeout, pvars, cvars, rvars, hvars, content, urs_code, generated>>

\* generate_urs_code writing the template before the 'true' statements
generate_urs_code_template_first(inst, template) ==
  LET code == IF driver = "sat"
              THEN sat_generate_urs_code(inst.num_vars, inst.num_clauses,
                                         inst.clauses, template)
              ELSE clique_generate_urs_code(inst.num_vertices, inst.edges, template)
      head == IF driver = "sat" THEN 9 ELSE 10
  IN SubSeq(code, 1, head) \o SubSeq(code, Len(code) - 1, Len(code))
       \o SubSeq(code, head + 1, Len(code) - 2)

\* generate_urs_code continuing the program of the previous call
generate_urs_code_accumulating(inst, template) ==
  urs_code \o (IF driver = "sat"
               THEN sat_generate_urs_code(inst.num_vars, inst.num_clauses,
                                          inst.clauses, template)
               ELSE clique_generate_urs_code(inst.num_vertices, inst.edges, template))

\* generate_urs_code of the driver on the parsed instance
generate_urs_code(inst, template) ==
  IF driver = "sat"
  THEN sat_generate_urs_code(inst.num_vars, inst.num_clauses, inst.clauses, template)
  ELSE clique_generate_urs_code(inst.num_vertices, inst.edges, template)

\* run_with_template: generate_urs_code with one of the templates
Generate ==
  /\ gpc \in {"parsed", "generated"}
  /\ Len(generated) < MaxCalls
  /\ \E template \in Templates :
       /\ urs_code' = generate_urs_code(instance, template)
       /\ generated' = Append(generated, [template |-> template, code |-> urs_code'])
  /\ gpc' = "generated"
  /\ UNCHANGED <<timeout, pvars, cvars, rvars, hvars, content, instance>>

NextGenerate == Parse \/ Generate

SpecGenerate == InitGenerate /\ [][NextGenerate]_vars

(***************************************************************************)
(* load_existing_results on a prior report.  The report is a file the      *)
(* driver finds on disk: any lines may be in it.                           *)
(***************************************************************************)
\* lines of a prior report: two result rows, the header row, the marker
\* line, and lines of the statistics section, two of them with a value that
\* is no integer
ReportLines(d) ==
  IF d = "sat"
  THEN {"AIM | a.cnf | SAT\n", "AIM | b.cnf | UNSAT\n", "Category | File\n",
        "FINAL STATISTICS:\n", "Total instances: 2\n", "Total instances: x\n",
        "URSA Results:\n", "TIMEOUT instances: x\n"}
  ELSE {"C-FAT | a.clq | FOUND\n", "C-FAT | b.txt | FOUND\n", "Category | File\n",
        "FINAL STATISTICS:\n", "Total instances: 2\n", "Total instances: x\n",
        "URSA Results:\n", "Timeout: x\n"}

\* the sequences of at most n elements of S
SeqsUpTo(S, n) == UNION {[1..k -> S] : k \in 0..n}

InitLoad ==
  /\ timeout = MaxTimeout
  /\ proc = NoProc
  /\ ran = "none"
  /\ ret = NoRet
  /\ driver \in {"sat", "clique"}
  /\ has_reduction = FALSE
  /\ dir = <<>>
  /\ report_exists \in BOOLEAN
  /\ report \in IF report_exists THEN SeqsUpTo(ReportLines(driver), MaxReportLines)
                ELSE {<<>>}
  /\ f_buffer = <<>>
  /\ pc = "start"
  /\ continue_mode = TRUE
  /\ processed_files = {}
  /\ existing_stats = EmptyStats(driver)
  /\ stats = EmptyStats(driver)
  /\ files_to_process = <<>>
  /\ idx = 1
  /\ skipped_count = 0
  /\ result = NoResult
  /\ started = {}
  /\ run_results = <<>>
  /\ completed = <<>>
  /\ rowlog = <<>>
  /\ base_lines = <<>>
  /\ final_stats = EmptyStats(driver)
  /\ last_run = NoRun
  /\ prev_run = NoRun
  /\ nruns = 0
  /\ IdleGenerator
  /\ NoChildren

\* load_or_init_stats in continue mode: load_existing_results
LoadResults ==
  /\ pc = "start"
  /\ processed_files'
       = load_or_init_stats(driver, continue_mode, report_exists, report).processed_files
  /\ existing_stats'
       = load_or_init_stats(driver, continue_mode, report_exists, report).existing_stats
  /\ pc' = "loaded"
  /\ UNCHANGED <<timeout, pvars, gvars, cvars, hvars, driver, dir, report_exists, report,
                 f_buffer, continue_mode, has_reduction, stats, files_to_process,
                 idx, skipped_count, result>>

\* benchmark_directory from find_dimacs_files / find_graph_files up to the
\* loop in continue mode, over a directory where no input file is found:
\* filter_files, prepare_output_file, open(output_file, file_mode),
\* write_header
PrepareOutput ==
  /\ pc = "loaded"
  /\ report' = IF report_exists THEN prepare_output_file(report) ELSE <<>>
  /\ base_lines' = report'
  /\ f_buffer' = IF report_exists THEN <<>> ELSE write_header(driver, has_reduction)
  /\ report_exists' = TRUE
  /\ files_to_process' = filter_files(<<>>, processed_files, continue_mode).files_to_process
  /\ skipped_count' = filter_files(<<>>, processed_files, continue_mode).skipped_count
  /\ idx' = 1
  /\ pc' = "loop"
  /\ nruns' = nruns + 1
  /\ UNCHANGED <<timeout, pvars, gvars, cvars, driver, dir, continue_mode,
                 has_reduction, processed_files, existing_stats, stats, result,
                 started, run_results, completed, rowlog, final_stats,
                 last_run, prev_run>>

NextLoad == LoadResults \/ PrepareOutput \/ Finalize

SpecLoad == InitLoad /\ [][NextLoad]_vars

(***************************************************************************)
(* Properties of the ProcessRunner and OutputClassifier (SpecClassify).    *)
(***************************************************************************)
\* the runner ran a primary solver (URSA) that ended in time with exit code c
UrsaEnded == ran \in {"sat_ursa", "clique_ursa"} /\ proc.launch /\ proc.intime

Positive == IF ran = "clique_ursa" THEN "FOUND" ELSE "SAT"
Negative == IF ran = "clique_ursa" THEN "NOT_FOUND" ELSE "UNSAT"

ZeroPhrase(stdout) ==
  \/ Contains(stdout, "0 solutions")
  \/ Contains(stdout, "No solutions found")
  \/ Contains(stdout, "[Number of solutions: 0]")

\* C7: with exit code 0, primary-solver output that contains the marker
\* '--> Solution' is classified positive (SAT in the SAT driver, FOUND in
\* the clique driver), also when it contains a zero-solutions phrase.
C7_ClassifierPrecedence ==
  (UrsaEnded /\ proc.rc = 0 /\ Contains(proc.out, "--> Solution"))
     => ret.status = Positive

\* C7 witness: an output with both the marker and a zero-solutions phrase
\* has been classified SAT.
C7_Witness ==
  /\ ran = "sat_ursa" /\ proc.launch /\ proc.intime /\ proc.rc = 0
  /\ Contains(proc.out, "--> Solution")
  /\ ZeroPhrase(proc.out)
  /\ ret.status = "SAT"

\* C8: with exit code 0 and no '--> Solution' marker, primary-solver output
\* that contains '[Number of solutions: 0]' is classified negative (UNSAT /
\* NOT_FOUND).
C8_BracketedZeroIsNegative ==
  (UrsaEnded /\ proc.rc = 0 /\ ~Contains(proc.out, "--> Solution")
     /\ Contains(proc.out, "[Number of solutions: 0]"))
     => ret.status = Negative

\* C23: in the clique driver, primary-solver output with exit code 0 that
\* matches neither positive rule is NOT_FOUND when it contains a
\* zero-solutions phrase and UNKNOWN otherwise, whatever other text (such as
\* 'Clique size: N') it contains.
C23_CliqueTextRulesOnly ==
  (ran = "clique_ursa" /\ proc.launch /\ proc.intime /\ proc.rc = 0
     /\ ~is_sat_output(proc.out))
     => ret.status = IF is_unsat_output(proc.out) THEN "NOT_FOUND" ELSE "UNKNOWN"

\* C9: for the primary solver a non-zero exit code yields ERROR whatever
\* stdout holds, exit code 0 never yields ERROR, and the outcome is one of
\* positive, negative, UNKNOWN, TIMEOUT, ERROR.
C9_ExitCodeDecidesError ==
  (ran \in {"sat_ursa", "clique_ursa"}) =>
     /\ (proc.launch /\ proc.intime /\ proc.rc # 0) => ret.status = "ERROR"
     /\ (proc.launch /\ proc.intime /\ proc.rc = 0) => ret.status # "ERROR"
     /\ ret.status \in {Positive, Negative, "UNKNOWN", "TIMEOUT", "ERROR"}

\* C9 witness: a run with a non-zero exit code whose output holds the
\* positive marker has been classified ERROR.
C9_Witness ==
  /\ ran = "sat_ursa" /\ proc.launch /\ proc.intime /\ proc.rc # 0
  /\ Contains(proc.out, "--> Solution")
  /\ ret.status = "ERROR"

\* C10: when a solver process (URSA, MiniSat, Cliquer) does not finish
\* within the timeout, the child is killed and the runner returns TIMEOUT
\* with elapsed time equal to the configured timeout, not the measured time,
\* whatever the output holds.
C10_TimeoutOutcome ==
  (ran # "none" /\ proc.launch /\ ~proc.intime) =>
     /\ ret.status = "TIMEOUT"
     /\ ret.elapsed = timeout
     /\ ret.killed

\* C10 witness: MiniSat timed out after printing a positive marker; the
\* measured time differs from the configured timeout.
C10_Witness ==
  /\ ran = "minisat" /\ proc.launch /\ ~proc.intime
  /\ proc.wall # timeout
  /\ Contains(proc.out, "--> Solution")
  /\ ret.status = "TIMEOUT" /\ ret.elapsed = timeout

\* C12: the outcome of a MiniSat run that ends in time is decided by the
\* exit code alone: SAT iff the code is 10, UNSAT iff it is 20, ERROR for
\* every other code (0 included); two runs with the same exit code get the
\* same outcome whatever they print.
C12_MinisatByExitCode ==
  (ran = "minisat" /\ proc.launch /\ proc.intime) =>
     /\ ret.status = "SAT" <=> proc.rc = 10
     /\ ret.status = "UNSAT" <=> proc.rc = 20
     /\ ret.status = "ERROR" <=> proc.rc \notin {10, 20}
     /\ \A out \in {"", "--> Solution", "No solutions found"} :
           run_minisat([proc EXCEPT !.out = out], timeout).status = ret.status

\* C12 witness: MiniSat ended in time with exit code 0 after printing the
\* positive marker and was classified ERROR.
C12_Witness ==
  /\ ran = "minisat" /\ proc.launch /\ proc.intime
  /\ proc.rc = 0
  /\ is_sat_output(proc.out)
  /\ ret.status = "ERROR"

(***************************************************************************)
(* Properties of the statistics section (SpecStats).                       *)
(***************************************************************************)
\* C6: in the SAT driver, parsing the FINAL STATISTICS section that
\* write_final_statistics produced restores every counter that was written:
\* the SAT, UNSAT, UNKNOWN, TIMEOUT and ERROR counters of each solver from
\* their own lines, and the total from 'Total instances'.
C6_ParseRestoresWritten ==
  (pc = "parsed" /\ driver = "sat") =>
     /\ existing_stats.total = stats.total
     /\ existing_stats.ursa = stats.ursa
     /\ existing_stats.minisat = stats.minisat
     /\ has_reduction => existing_stats.reduction = stats.reduction

(***************************************************************************)
(* Properties of the run controller (Spec).                                *)
(***************************************************************************)
IsPrefix(a, b) == Len(a) <= Len(b) /\ SubSeq(b, 1, Len(a)) = a

\* the identifiers of the result rows among the lines, in order
RECURSIVE RowIdsFrom(_, _)
RowIdsFrom(lines, i) ==
  IF i > Len(lines) THEN <<>>
  ELSE (IF IsResultLine(lines[i], Exts(driver))
        THEN <<Strip(SecondField(lines[i]))>> ELSE <<>>)
       \o RowIdsFrom(lines, i + 1)

RowIdsSeq(lines) == Once(LAMBDA l : RowIdsFrom(l, 1), lines)

FileNames(results) == [k \in 1..Len(results) |-> results[k].file]

Range(seq) == {seq[k] : k \in 1..Len(seq)}

\* the lines written to the report since the loop of the current run began
NewLines == SubSeq(report, Len(base_lines) + 1, Len(report)) \o f_buffer

\* the counter a solver status is reported under: the status itself in the
\* SAT driver; in the clique driver found, not_found, timeout, and error for
\* the rest (Cliquer has no not_found counter)
KindOf(d, sec, status) ==
  IF d = "sat" THEN status
  ELSE IF status = "FOUND" THEN "found"
  ELSE IF status = "TIMEOUT" THEN "timeout"
  ELSE IF status = "NOT_FOUND" /\ sec # "cliquer" THEN "not_found"
  ELSE "error"

StatusField(sec) ==
  IF sec = "ursa" THEN "ursa_status"
  ELSE IF sec = "reduction" THEN "reduction_status"
  ELSE IF sec = "minisat" THEN "minisat_status"
  ELSE "cliquer_status"

\* existing plus, for every solver and counter, the number of the results
\* reported under that counter; the reduction counters only when a
\* reduction template is configured
SumOf(d, existing, results, red) ==
  [sec \in DOMAIN existing |->
     IF sec = "total" THEN existing.total + Len(results)
     ELSE IF sec = "reduction" /\ ~red THEN existing.reduction
     ELSE [k \in DOMAIN existing[sec] |->
             existing[sec][k]
               + Cardinality({i \in 1..Len(results) :
                                KindOf(d, sec, results[i][StatusField(sec)]) = k})]]

JustFinalized == pc = "idle" /\ last_run.end = "final"

\* C1: a fresh run over a directory of N files that is killed or interrupted
\* inside the loop after k < N rows, followed by a resumed run over the same
\* directory with the same templates, ends with the ledger of one
\* uninterrupted run: the written statistics count every row of the report,
\* and every parsable instance of the directory has a row.
C1_RoundTripResumption ==
  (/\ JustFinalized
   /\ continue_mode /\ ~prev_run.cont /\ prev_run.end = "crash"
   /\ prev_run.n = Len(dir) /\ prev_run.red = has_reduction
   /\ Len(rowlog) - Len(run_results) < Len(dir))
  => /\ final_stats = SumOf(driver, EmptyStats(driver), rowlog, has_reduction)
     /\ Range(FileNames(rowlog))
          = {basename(dir[k].path) : k \in {j \in 1..Len(dir) : dir[j].ok}}

\* C2: a resumed run over a directory whose files all have rows in a
\* finalized report (written with the same templates) adds no result row
\* and writes statistics whose counters equal those written before.
C2_IdempotentSkip ==
  [][(/\ pc = "loop" /\ pc' = "idle" /\ last_run'.end = "final"
      /\ continue_mode
      /\ last_run.end = "final" /\ last_run.red = has_reduction
      /\ \A k \in 1..Len(dir) : basename(dir[k].path) \in processed_files)
     => /\ run_results = <<>>
        /\ RowIdsSeq(report') = FileNames(rowlog)
        /\ final_stats'.total = final_stats.total
        /\ final_stats'.ursa = final_stats.ursa
        /\ \A sec \in {"minisat", "cliquer"} \cap DOMAIN final_stats :
              final_stats'[sec] = final_stats[sec]
        /\ has_reduction => final_stats'.reduction = final_stats.reduction]_vars

\* C3: in a resumed run a file whose base name is in processed_files is
\* never reprocessed or recounted: no solver process is started for it, no
\* result is counted and no row is written for it; it is counted in
\* skipped_count only, and total counts exactly the results of this run.
C3_SkippedNeverReprocessed ==
  continue_mode =>
     LET names == [k \in 1..Len(dir) |-> basename(dir[k].path)]
         new_rows == Range(RowIdsSeq(NewLines))
     IN /\ skipped_count = Cardinality({k \in 1..Len(dir) : names[k] \in processed_files})
        /\ \A k \in 1..Len(dir) :
             names[k] \in processed_files =>
               /\ \A sv \in {"ursa", "reference", "reduction"} :
                     <<names[k], sv>> \notin started
               /\ names[k] \notin Range(FileNames(run_results))
               /\ names[k] \notin new_rows
        /\ stats.total = Len(run_results)

\* C3 witness: a resumed run has ended that skipped a processed file and
\* benchmarked another one.
C3_Witness ==
  /\ JustFinalized /\ continue_mode
  /\ skipped_count > 0
  /\ Len(run_results) > 0

\* C4: wherever a run is killed or interrupted inside the loop, the report
\* holds no FINAL STATISTICS marker, the lines it had when the loop began
\* are still there, and its result rows are, in order, the rows of the
\* instances completed so far (one each); the next resumed run then loads
\* exactly the identifiers of these rows and an all-zero prior aggregate.
C4_CrashConsistency ==
  /\ (InLoop \/ (pc = "idle" /\ last_run.end = "crash")) =>
        /\ final_stats_index(report) = 0
        /\ IsPrefix(base_lines, report)
        /\ RowIdsSeq(report) = FileNames(rowlog)
        /\ LET new_rows == RowIdsSeq(NewLines)
           IN \A name \in Range(completed) :
                 Cardinality({k \in 1..Len(new_rows) : new_rows[k] = name}) = 1
  /\ (pc = "loop" /\ idx = 1 /\ completed = <<>> /\ continue_mode
        /\ last_run.end = "crash") =>
        /\ processed_files = Range(FileNames(rowlog))
        /\ existing_stats = EmptyStats(driver)

\* C4 witness: a resumed run starts on a report that a run killed inside
\* the loop left with at least one row.
C4_Witness ==
  /\ pc = "loop" /\ idx = 1 /\ completed = <<>> /\ continue_mode
  /\ last_run.end = "crash"
  /\ Len(rowlog) > 0
  /\ processed_files = Range(FileNames(rowlog))

FileNamed(name) == CHOOSE f \in Range(dir) : basename(f.path) = name

\* the name of the reference solver in the fields of a result
Reference == IF driver = "sat" THEN "minisat" ELSE "cliquer"

\* the process the solver sv showed on the file f
ProcessOf(f, sv) ==
  IF sv = "ursa" THEN f.ursa ELSE IF sv = "reduction" THEN f.red ELSE f.ref

\* the solvers that have returned for the result res
Returned(res) ==
  {sv \in {"ursa", Reference, "reduction"} : (sv \o "_status") \in DOMAIN res}

\* in res every solver whose process could not be launched is reported as
\* ERROR with elapsed time 0 (and clique size 0)
LaunchFailuresAreErrors(res) ==
  \A sv \in Returned(res) :
     ~ProcessOf(FileNamed(res.file), sv).launch =>
        /\ res[sv \o "_status"] = "ERROR"
        /\ res[sv \o "_time"] = 0
        /\ driver = "clique" => res[sv \o "_clique"] = 0

\* C11: when the process of a solver cannot be launched, the runner returns
\* ERROR with elapsed time 0 instead of raising, for URSA (solver and
\* reduction template) and for the reference solver (MiniSat, Cliquer); the
\* remaining solvers still run on the instance, its row is counted, and the
\* loop goes on with the next instance.
C11_LaunchFailureIsError ==
  /\ pc \in {"ref", "red", "row", "flush"} => LaunchFailuresAreErrors(result)
  /\ \A i \in 1..Len(run_results) :
        /\ LaunchFailuresAreErrors(run_results[i])
        /\ Returned(run_results[i])
             = {"ursa", Reference} \cup (IF has_reduction THEN {"reduction"} ELSE {})
  /\ (pc = "loop" /\ idx > 1) =>
        LET f == FileAt(files_to_process[idx - 1])
        IN (f.ok /\ ~(continue_mode /\ basename(f.path) \in processed_files))
              => basename(f.path) \in Range(completed)

\* C11 witness: URSA could not be launched for one instance and the
\* reference solver could not be launched for a later one; both have rows
\* with ERROR and time 0, and after the failed launch of the reference
\* solver the reduction was still run.
C11_Witness ==
  \E i, j \in 1..Len(run_results) :
     /\ has_reduction
     /\ i < j
     /\ ~FileNamed(run_results[i].file).red.launch
     /\ run_results[i].reduction_status = "ERROR"
     /\ run_results[i].reduction_time = 0
     /\ ~FileNamed(run_results[j].file).ref.launch
     /\ run_results[j][Reference \o "_status"] = "ERROR"
     /\ run_results[j][Reference \o "_time"] = 0
     /\ <<run_results[j].file, "reduction">> \in started

\* the base names of the files of the directory that the parser rejects
Unparsable == {basename(dir[k].path) : k \in {j \in 1..Len(dir) : ~dir[j].ok}}

\* C14: an instance whose file cannot be parsed is isolated: no solver is
\* run on it, no result is counted and no row is written for it, no counter
\* (the total included) is incremented for it, and the run goes on with the
\* next instance.
C14_UnparsableIsolated ==
  /\ \A name \in Unparsable :
        /\ \A sv \in {"ursa", "reference", "reduction"} : <<name, sv>> \notin started
        /\ name \notin Range(FileNames(run_results))
        /\ name \notin Range(completed)
        /\ \A k \in 1..Len(NewLines) : ~Contains(NewLines[k], name)
  /\ stats = SumOf(driver, EmptyStats(driver), run_results, has_reduction)
  /\ stats.total = Len(run_results)
  /\ (pc \in {"ursa", "ref", "red", "row", "flush"}) => FileAt(CurrentFile).ok
  /\ (InLoop /\ pc # "loop") => result.file = basename(CurrentFile)

\* C14 witness: the run has passed a file that could not be parsed and has
\* then written the row of a later instance.
C14_Witness ==
  \E i, j \in 1..Len(files_to_process) :
     /\ i < j /\ j < idx
     /\ ~FileAt(files_to_process[i]).ok
     /\ basename(files_to_process[j]) \in Range(completed)
     /\ stats.total = Len(completed)

\* the base names of the instances of this run that are parsed and not
\* skipped, in the order of the loop
Benchmarked(files) ==
  LET kept(path) == FileAt(path).ok
                      /\ ~(continue_mode /\ basename(path) \in processed_files)
      chosen == SelectSeq(files, kept)
  IN [k \in 1..Len(chosen) |-> basename(chosen[k])]

\* the run has reached finalization: FINAL STATISTICS is written, exactly
\* one row was written and the total incremented by one for every instance
\* parsed and not skipped
BatchFinalized ==
  /\ pc = "idle" /\ last_run.end = "final"
  /\ final_stats_index(NewLines) > 0
  /\ RowIdsSeq(NewLines) = Benchmarked(files_to_process)
  /\ FileNames(run_results) = Benchmarked(files_to_process)
  /\ stats.total = Len(Benchmarked(files_to_process))
  /\ final_stats.total = existing_stats.total + Len(Benchmarked(files_to_process))

\* C15: failures of single instances never abort a batch: whatever the
\* solvers return and whichever files cannot be parsed, a run that is not
\* killed reaches finalization and writes FINAL STATISTICS, having written
\* exactly one row and incremented the total by one for every instance
\* parsed and not skipped.
C15_BatchTerminates == InLoop ~> BatchFinalized

\* C15 witness: a run over a directory with a file that cannot be parsed,
\* in which solvers ended with ERROR, has been finalized.
C15_Witness ==
  /\ BatchFinalized
  /\ Unparsable # {}
  /\ Len(run_results) >= 2
  /\ has_reduction
  /\ \A k \in 1..Len(run_results) :
        "ERROR" \in {run_results[k][Reference \o "_status"],
                     run_results[k].reduction_status}

(***************************************************************************)
(* Properties of the parsers and generators (SpecGenerate).                *)
(***************************************************************************)
\* the lines of the input file, without the white space around them
InputLines ==
  LET lines == SplitLines(content)
  IN [k \in 1..Len(lines) |-> Strip(lines[k])]

\* the line is a header line of the driver's input format
IsHeader(line) ==
  IF driver = "sat" THEN StartsWith(line, "p cnf")
  ELSE StartsWith(line, "p edge") \/ StartsWith(line, "p col")

\* the two counts a header line declares are integers
CountsAreIntegers(line) ==
  LET parts == Words(line)
  IN Len(parts) >= 4 /\ ~IntFails(parts[3]) /\ ~IntFails(parts[4])

Parsed == gpc \in {"failed", "parsed", "generated"}

\* C13: the parser raises, and returns no instance, whenever the input has
\* no header line ('p edge' / 'p col' for graphs, 'p cnf' for CNF) or a
\* count declared in a header line is not an integer.
C13_MalformedInputRaises ==
  Parsed =>
    ((\/ \A k \in 1..Len(InputLines) : ~IsHeader(InputLines[k])
      \/ \E k \in 1..Len(InputLines) :
            IsHeader(InputLines[k]) /\ ~CountsAreIntegers(InputLines[k]))
       => instance.raises)

(***************************************************************************)
(* What a generated program does to its matrix (bEdge or bC): the nested   *)
(* loops set every entry of the declared range to false, and each          *)
(* statement 'name[a][b] = true;' sets one entry.                          *)
(***************************************************************************)
\* the matrix the driver's generated programs fill
MatrixName == IF driver = "sat" THEN "bC" ELSE "bEdge"

\* the value of 'name = <value>;' in the program (0 when it is not declared)
Declared(code, name) ==
  LET decl == {i \in 1..Len(code) : StartsWith(code[i], name \o " = ")}
  IN IF decl = {} THEN 0
     ELSE LET line == code[SetMin(decl)]
          IN IntValue(SubSeq(line, Len(name) + 4, Len(line) - 2))

\* the lines of the initialization loops of the driver's programs
InitLoop ==
  IF driver = "sat"
  THEN <<"for(ni=0; ni<nClauses; ni++) {\n",
         "    for(nj=0; nj<2*nN; nj++) {\n",
         "        bC[ni][nj] = false;\n">>
  ELSE <<"for(i=0; i<nN; i++) {\n",
         "    for(j=0; j<nN; j++) {\n",
         "        bEdge[i][j] = false;\n">>

\* the program holds the initialization loops from line i on
LoopAt(code, i) ==
  i + 2 <= Len(code) /\ \A k \in 1..3 : code[i + k - 1] = InitLoop[k]

\* the entries the initialization loops of the program range over
Initialized(code) ==
  IF \E i \in 1..Len(code) : LoopAt(code, i)
  THEN IF driver = "sat"
       THEN (0..(Declared(code, "nClauses") - 1)) \X (0..(2 * Declared(code, "nN") - 1))
       ELSE (0..(Declared(code, "nN") - 1)) \X (0..(Declared(code, "nN") - 1))
  ELSE {}

\* the line is a statement 'name[a][b] = true;'
IsTrueAssignment(line) ==
  /\ StartsWith(line, MatrixName \o "[")
  /\ Len(line) > Len("] = true;\n")
  /\ SubSeq(line, Len(line) - Len("] = true;\n") + 1, Len(line)) = "] = true;\n"
  /\ Contains(line, "][")

\* the entry <<a, b>> a statement 'name[a][b] = true;' sets
TargetOf(line) ==
  LET mid == SetMin(Occurrences(line, "]["))
  IN <<IntValue(SubSeq(line, Len(MatrixName) + 2, mid - 1)),
       IntValue(SubSeq(line, mid + 2, Len(line) - Len("] = true;\n")))>>

\* the entries the 'true' statements of the program set, in program order
TrueAssignments(code) ==
  LET stmts == SelectSeq(code, IsTrueAssignment)
  IN [k \in 1..Len(stmts) |-> TargetOf(stmts[k])]

\* the matrix after the lines of the program from the i-th on have run on m
RECURSIVE Execute(_, _, _)
Execute(code, i, m) ==
  IF i > Len(code) THEN m
  ELSE IF LoopAt(code, i)
       THEN Execute(code, i + 3,
                    [e \in DOMAIN m \cup Initialized(code) |->
                       IF e \in Initialized(code) THEN FALSE ELSE m[e]])
       ELSE IF IsTrueAssignment(code[i])
            THEN Execute(code, i + 1,
                         [e \in DOMAIN m \cup {TargetOf(code[i])} |->
                            IF e = TargetOf(code[i]) THEN TRUE ELSE m[e]])
            ELSE Execute(code, i + 1, m)

\* the matrix after the program has run
MatrixAfter(code) == Execute(code, 1, [e \in {} |-> FALSE])

\* the edge lines 'e u v' of the input, as the pairs <<u, v>>, in file order
EdgeLines ==
  LET found == SelectSeq(InputLines,
                         LAMBDA l : StartsWith(l, "e ") /\ Len(Words(l)) >= 3)
  IN [k \in 1..Len(found) |->
        <<IntValue(Words(found[k])[2]), IntValue(Words(found[k])[3])>>]

\* the two entries of each edge line, in file order
RECURSIVE BothWays(_, _)
BothWays(pairs, k) ==
  IF k > Len(pairs) THEN <<>>
  ELSE <<<<pairs[k][1] - 1, pairs[k][2] - 1>>, <<pairs[k][2] - 1, pairs[k][1] - 1>>>>
         \o BothWays(pairs, k + 1)

SeqRange(q) == {q[k] : k \in 1..Len(q)}

\* C16: for every edge line 'e u v' of a graph instance the generated
\* program sets bEdge[u-1][v-1] and bEdge[v-1][u-1] to true, with exactly
\* two 'true' assignments per edge line, and every entry of the initialized
\* matrix that belongs to no edge is false after the program has run.
C16_EdgeSymmetry ==
  (driver = "clique" /\ gpc = "generated") =>
     \A m \in {MatrixAfter(urs_code)}, edge \in {EdgeLines} :
        /\ TrueAssignments(urs_code) = BothWays(edge, 1)
        /\ \A k \in 1..Len(edge) :
             /\ m[<<edge[k][1] - 1, edge[k][2] - 1>>]
             /\ m[<<edge[k][2] - 1, edge[k][1] - 1>>]
        /\ \A e \in Initialized(urs_code) :
             m[e] <=> e \in SeqRange(BothWays(edge, 1))

\* the instance 'p edge 3 2 / e 1 2 / e 2 3': 9 entries initialized and the
\* four entries (0,1), (1,0), (1,2), (2,1) set
C16_Witness ==
  /\ driver = "clique" /\ gpc = "generated"
  /\ content = "p edge 3 2\ne 1 2\ne 2 3\n"
  /\ Cardinality(Initialized(urs_code)) = 9
  /\ TrueAssignments(urs_code) = <<<<0, 1>>, <<1, 0>>, <<1, 2>>, <<2, 1>>>>
  /\ Cardinality({e \in DOMAIN MatrixAfter(urs_code) : MatrixAfter(urs_code)[e]}) = 4

\* the slot of the literal l of the clause with 0-based index c
SlotOf(c, l) == <<c, IF l > 0 THEN 2 * (Abs(l) - 1) ELSE 2 * (Abs(l) - 1) + 1>>

\* the slots of the literal occurrences of the clauses from the c-th on (c
\* counts from 1), in file order
RECURSIVE SlotsFrom(_, _)
SlotsFrom(clauses, c) ==
  IF c > Len(clauses) THEN <<>>
  ELSE [k \in 1..Len(clauses[c]) |-> SlotOf(c - 1, clauses[c][k])]
         \o SlotsFrom(clauses, c + 1)

\* C17: for the c-th clause of the instance (0-based, in file order) and
\* each literal occurrence l in it the generated program sets
\* bC[c][2*(|l|-1)] to true when l > 0 and bC[c][2*(|l|-1)+1] when l < 0,
\* one assignment per literal occurrence, and every other entry of the
\* nClauses x 2*nN matrix is false.
C17_CnfEncoding ==
  (driver = "sat" /\ gpc = "generated") =>
     \A m \in {MatrixAfter(urs_code)}, slots \in {SlotsFrom(instance.clauses, 1)} :
        /\ TrueAssignments(urs_code) = slots
        /\ \A c \in 1..Len(instance.clauses) : \A k \in 1..Len(instance.clauses[c]) :
             m[SlotOf(c - 1, instance.clauses[c][k])]
        /\ Initialized(urs_code)
             = (0..(instance.num_clauses - 1)) \X (0..(2 * instance.num_vars - 1))
        /\ \A e \in Initialized(urs_code) : m[e] <=> e \in SeqRange(slots)

\* the instance 'p cnf 2 1 / 1 -2 0': entries [0][0] and [0][3] set, the
\* two other entries of the 4-wide row false
C17_Witness ==
  /\ driver = "sat" /\ gpc = "generated"
  /\ content = "p cnf 2 1\n1 -2 0\n"
  /\ instance.clauses = <<<<1, -2>>>>
  /\ TrueAssignments(urs_code) = <<<<0, 0>>, <<0, 3>>>>
  /\ Cardinality(Initialized(urs_code)) = 4
  /\ ~MatrixAfter(urs_code)[<<0, 1>>] /\ ~MatrixAfter(urs_code)[<<0, 2>>]

\* C18: for every instance the parser returns, every edge endpoint is
\* between 1 and the vertex count and every literal's absolute value is
\* between 1 and the variable count, so that every 'true' assignment of the
\* generated program targets an entry the program initialized.
C18_IndicesInRange ==
  (gpc \in {"parsed", "generated"}) =>
     /\ (driver = "clique") =>
          \A k \in 1..Len(instance.edges) :
             /\ instance.edges[k][1] \in 1..instance.num_vertices
             /\ instance.edges[k][2] \in 1..instance.num_vertices
     /\ (driver = "sat") =>
          \A c \in 1..Len(instance.clauses) : \A k \in 1..Len(instance.clauses[c]) :
             Abs(instance.clauses[c][k]) \in 1..instance.num_vars
     /\ (gpc = "generated") =>
          SeqRange(TrueAssignments(urs_code)) \subseteq Initialized(urs_code)

BeforeMarker == SubSeq(report, 1, final_stats_index(report) - 1)
FromMarker == SubSeq(report, final_stats_index(report), Len(report))

\* other lines that could stand before the marker, and other sections that
\* could start at it
OtherData == SeqsUpTo(ReportLines(driver) \ {"FINAL STATISTICS:\n"}, 1)
OtherSections ==
  {<<"FINAL STATISTICS:\n">> \o q : q \in SeqsUpTo(ReportLines(driver), 1)}

\* C20: without a 'FINAL STATISTICS' line in the prior report every line is
\* data: the processed identifiers are those of all result rows and the
\* prior aggregate is all zeros; with the marker, the identifiers are those
\* of the rows before it, whatever follows it, and the aggregate is read
\* from the lines from it on, whatever precedes it.
C20_MarkerSplitsReport ==
  (pc = "loaded" /\ report_exists) =>
     IF final_stats_index(report) = 0
     THEN /\ processed_files = Range(RowIdsSeq(report))
          /\ existing_stats = EmptyStats(driver)
     ELSE /\ processed_files = Range(RowIdsSeq(BeforeMarker))
          /\ \A q \in OtherSections :
               load_existing_results(driver, TRUE, BeforeMarker \o q).processed_files
                 = processed_files
          /\ \A q \in OtherData :
               load_existing_results(driver, TRUE, q \o FromMarker).existing_stats
                 = existing_stats

\* a report with a row before the marker and, after it, another row and
\* nothing that changes the aggregate, or a total
C20_Witness ==
  /\ pc = "loaded" /\ report_exists
  /\ final_stats_index(report) = 2
  /\ Len(report) = 3
  /\ processed_files # {}
  /\ Range(RowIdsSeq(FromMarker)) # {}
  /\ Range(RowIdsSeq(FromMarker)) \cap processed_files = {}

\* the accumulator [st, ctx] of _parse_statistics_section after these lines
ParseAfter(lines) ==
  IF driver = "sat"
  THEN SatParseFrom([st |-> sat_initialize_empty_stats, ctx |-> NoContext], lines, 1)
  ELSE CliqueParseFrom([st |-> clique_initialize_empty_stats, ctx |-> NoContext],
                       lines, 1)

\* the text after the first ':' of the line
ValueText(line) == Split1(line, ":")[2]

IsTotalLine(line) == StartsWith(line, "Total instances:")

\* the line is a labelled count line (of the TIMEOUT counter)
IsTimeoutLine(line) ==
  StartsWith(line, IF driver = "sat" THEN "TIMEOUT instances:" ELSE "Timeout:")

TimeoutKey == IF driver = "sat" THEN "TIMEOUT" ELSE "timeout"

\* a count line or 'Total instances' line whose value is no integer
Malformed(line) ==
  (IsTotalLine(line) \/ IsTimeoutLine(line)) /\ IntFails(ValueText(line))

\* the line with its value replaced by the value its counter has in acc
\* (a count line outside every section addresses no counter)
WithPreviousValue(line, acc) ==
  IF IsTotalLine(line) THEN "Total instances: " \o ToStr(acc.st.total) \o "\n"
  ELSE IF acc.ctx = NoContext THEN line
  ELSE SubSeq(line, 1, Len(line) - Len(ValueText(line)))
         \o " " \o ToStr(acc.st[acc.ctx][TimeoutKey]) \o "\n"

\* the lines with every malformed line from the k-th on carrying the value
\* its counter had before it
RECURSIVE Repaired(_, _)
Repaired(lines, k) ==
  IF k > Len(lines) THEN lines
  ELSE IF Malformed(lines[k])
       THEN Repaired([lines EXCEPT
                        ![k] = WithPreviousValue(lines[k],
                                                 ParseAfter(SubSeq(lines, 1, k - 1)))],
                     k + 1)
       ELSE Repaired(lines, k + 1)

\* C21: a count line or 'Total instances' line of the prior aggregate whose
\* value is no integer leaves every counter as it was before the line, and
\* the load goes on: the remaining lines are parsed as if the line carried
\* the previous value of its counter, and the processed identifiers are
\* returned.
C21_MalformedCountIgnored ==
  (pc = "loaded" /\ report_exists /\ final_stats_index(report) > 0) =>
     /\ \A k \in 1..Len(FromMarker) :
          Malformed(FromMarker[k]) =>
             ParseAfter(SubSeq(FromMarker, 1, k)).st
               = ParseAfter(SubSeq(FromMarker, 1, k - 1)).st
     /\ existing_stats = ParseAfter(Repaired(FromMarker, 1)).st
     /\ processed_files = Range(RowIdsSeq(BeforeMarker))

\* a prior aggregate whose total was set and then meets a malformed total,
\* after a result row
C21_Witness ==
  /\ pc = "loaded" /\ report_exists
  /\ Len(report) >= 3
  /\ final_stats_index(report) > 0
  /\ \E k \in 2..Len(FromMarker) :
        /\ Malformed(FromMarker[k]) /\ IsTotalLine(FromMarker[k])
        /\ ParseAfter(SubSeq(FromMarker, 1, k - 1)).st.total = 2
  /\ existing_stats.total = 2

(***************************************************************************)
(* Properties of the order of the events of a run (Spec).                  *)
(***************************************************************************)
\* the solvers that must have returned when the run controller is at pc
ReturnedAt(at) ==
  IF at = "ursa" THEN {}
  ELSE IF at = "ref" THEN {"ursa"}
  ELSE IF at = "red" THEN {"ursa", Reference}
  ELSE {"ursa", Reference} \cup (IF has_reduction THEN {"reduction"} ELSE {})

\* the events of one instance come in the order parse, primary solver,
\* reference solver, reduction (only with a reduction template), row; and
\* every solver launched in this run belongs to an instance whose row is
\* flushed or to the instance being processed
EventsInOrder ==
  /\ pc \in {"ursa", "ref", "red", "row", "flush"} =>
        /\ Returned(result) = ReturnedAt(pc)
        /\ result.file = basename(CurrentFile)
        /\ result.file \notin Range(completed)
  /\ pc = "red" => has_reduction
  /\ InLoop =>
        \A ev \in started :
           \/ ev[1] \in Range(completed)
           \/ pc \in {"ref", "red", "row", "flush"} /\ ev[1] = result.file
  /\ InLoop => FileNames(run_results) \in {completed, Append(completed, result.file)}

\* C22: processing is strictly sequential: per instance the events are
\* parse, primary solver, reference solver, reduction (only with a reduction
\* template), row; at most one solver process is alive at any time; and no
\* event of the next instance happens before the row of the instance has
\* been written and flushed.
C22_StrictlySequential ==
  /\ EventsInOrder
  /\ concurrent <= 1

\* the clause lines of a CNF input: the lines that are neither blank, nor
\* comments ('c', '%'), nor header lines ('p'), in file order
ClauseLines ==
  SelectSeq(InputLines,
            LAMBDA l : l # "" /\ ~StartsWith(l, "c") /\ ~StartsWith(l, "%")
                         /\ ~StartsWith(l, "p"))

\* the signed integers of a clause line in order, without the terminating 0
SignedIntegers(line) ==
  LET parts == Words(line)
      n == IF Len(parts) > 0 /\ parts[Len(parts)] = "0" THEN Len(parts) - 1
           ELSE Len(parts)
  IN [k \in 1..n |-> IntValue(parts[k])]

\* C24: every clause line of a CNF input yields one clause, made of the
\* signed integers of the line in order without the terminating 0; no
\* clause holds the literal 0; and the k-th clause line has clause index
\* k-1 in the generated program.
C24_ClausePerLine ==
  (driver = "sat" /\ gpc \in {"parsed", "generated"}) =>
     /\ Len(instance.clauses) = Len(ClauseLines)
     /\ \A k \in 1..Len(ClauseLines) :
          instance.clauses[k] = SignedIntegers(ClauseLines[k])
     /\ \A c \in 1..Len(instance.clauses) : \A k \in 1..Len(instance.clauses[c]) :
          instance.clauses[c][k] # 0
     /\ (gpc = "generated") =>
          TrueAssignments(urs_code)
            = SlotsFrom([k \in 1..Len(ClauseLines) |-> SignedIntegers(ClauseLines[k])], 1)

\* the positions of the program where the initialization loops start, and
\* the positions of its 'true' statements
LoopStarts(code) == {i \in 1..Len(code) : LoopAt(code, i)}
TruePositions(code) == {i \in 1..Len(code) : IsTrueAssignment(code[i])}

\* the entries the 'true' statements must set, in input-file order
ExpectedAssignments ==
  IF driver = "sat" THEN SlotsFrom(instance.clauses, 1) ELSE BothWays(EdgeLines, 1)

\* the program is: the size declaration(s), the loops that set the whole
\* matrix false (outer index first), the 'true' statements in input order
\* as one block, one blank line, the template
Layout(code, template) ==
  /\ code[1] = "nN = " \o IntStr(Declared(code, "nN")) \o ";\n"
  /\ (driver = "sat") =>
        code[2] = "nClauses = " \o IntStr(Declared(code, "nClauses")) \o ";\n"
  /\ Cardinality(LoopStarts(code)) = 1
  /\ \A i \in LoopStarts(code) :
        /\ i > (IF driver = "sat" THEN 2 ELSE 1)
        /\ code[i + 3] = "    }\n" /\ code[i + 4] = "}\n"
        /\ \A j \in TruePositions(code) : j > i + 4
  /\ TruePositions(code)
       = (Len(code) - 1 - Cardinality(TruePositions(code)))..(Len(code) - 2)
  /\ TrueAssignments(code) = ExpectedAssignments
  /\ code[Len(code) - 1] = "\n"
  /\ code[Len(code)] = template \o "\n"

\* C25: the generated program is, in this order, the size declaration(s),
\* the initialization of the whole matrix to false in row-major order, the
\* 'true' assignments in input-file order, one blank line, and the template
\* text unchanged; no 'true' assignment precedes the initialization.
C25_ProgramLayout ==
  \A g \in 1..Len(generated) : Layout(generated[g].code, generated[g].template)

\* programs with 'true' statements were generated with both templates
C25_Witness ==
  /\ Len(generated) = 2
  /\ generated[1].template # generated[2].template
  /\ Cardinality(TruePositions(generated[1].code)) >= 2
  /\ Layout(generated[2].code, generated[2].template)

(***************************************************************************)
(* Properties of the report as a ledger (Spec).                            *)
(***************************************************************************)
\* the text after 'Total instances:' in the statistics section of the report
TotalInstancesText ==
  LET at == CHOOSE k \in 1..Len(FromMarker) : IsTotalLine(FromMarker[k])
  IN Strip(ValueText(FromMarker[at]))

\* C26: after every finalized run, whatever runs (fresh, resumed, killed or
\* interrupted) came before it on the same report, the 'Total instances'
\* value of the FINAL STATISTICS section is the number of result rows in
\* the data section of the report.
C26_LedgerCount ==
  JustFinalized =>
     /\ final_stats_index(report) > 0
     /\ \E k \in 1..Len(FromMarker) : IsTotalLine(FromMarker[k])
     /\ TotalInstancesText = ToStr(Len(RowIdsSeq(BeforeMarker)))
     /\ final_stats.total = Len(RowIdsSeq(BeforeMarker))

\* C27: no identifier is in more than one result row of the report,
\* whatever the directory (two files of different subdirectories may share
\* a base name) and whatever runs came before.
C27_OneRowPerIdentifier ==
  \A ids \in {RowIdsSeq(report \o f_buffer)} :
     \A j, k \in 1..Len(ids) : ids[j] = ids[k] => j = k

(***************************************************************************)
(* Properties of prepare_output_file (SpecLoad, Spec).                     *)
(***************************************************************************)
\* the places of the lines of the report holding the marker
MarkerLines == {k \in 1..Len(report) : Contains(report[k], "FINAL STATISTICS:")}

\* the places of the result rows of the report
RowLines == {k \in 1..Len(report) : IsResultLine(report[k], Exts(driver))}

\* a run in continue mode passes prepare_output_file on an existing report
PreparesReport == pc \in {"idle", "loaded"} /\ pc' = "loop" /\ continue_mode' /\ report_exists

\* C28: in continue mode prepare_output_file leaves a report without the
\* marker as it is and cuts any other report at its first marker line,
\* keeping the lines before it unchanged and in order; so after every
\* finalized resumed run the report holds exactly one marker line, and that
\* line comes after every result row.
C28_RemovesOnlyAggregate ==
  /\ [][PreparesReport =>
          report' = IF final_stats_index(report) = 0 THEN report ELSE BeforeMarker]_vars
  /\ []((JustFinalized /\ continue_mode) =>
          /\ Cardinality(MarkerLines) = 1
          /\ \A m \in MarkerLines, r \in RowLines : r < m)

(***************************************************************************)
(* Properties of update_stats (SpecStats).                                 *)
(***************************************************************************)
\* the sum of the counters of one solver
RECURSIVE SumOver(_, _)
SumOver(counters, keys) ==
  IF keys = {} THEN 0
  ELSE LET k == CHOOSE x \in keys : TRUE
       IN counters[k] + SumOver(counters, keys \ {k})

CounterSum(counters) == SumOver(counters, DOMAIN counters)

\* the solvers update_stats counts: the primary and the reference solver,
\* and the reduction when a reduction template is configured
CountedSolvers ==
  {"ursa", Reference} \cup (IF has_reduction THEN {"reduction"} ELSE {})

\* the counter this claim names for a status
CounterOf(sec, status) ==
  IF driver = "sat" THEN status
  ELSE IF status = "UNKNOWN" \/ status = "ERROR" THEN "error"
  ELSE IF status = "NOT_FOUND" /\ sec = "cliquer" THEN "error"
  ELSE Lower(status)

\* C29: update_stats adds one to total and to exactly one counter of every
\* counted solver, so after any number of calls the counters of each counted
\* solver sum to total; in the clique driver UNKNOWN of URSA and of the
\* reduction, and NOT_FOUND of Cliquer, add to 'error'.
C29_CountersSumToTotal ==
  /\ [](pc = "count" =>
          \A sec \in CountedSolvers : CounterSum(stats[sec]) = stats.total)
  /\ [][(pc = "count" /\ stats' # stats) =>
          /\ stats'.total = stats.total + 1
          /\ \A sec \in CountedSolvers :
                stats'[sec] = [stats[sec] EXCEPT
                                 ![CounterOf(sec, result'[StatusField(sec)])] = @ + 1]
          /\ ~has_reduction => stats'.reduction = stats.reduction]_vars

\* C29 witness: in the clique driver with a reduction template, the result
\* counted last has URSA status UNKNOWN and Cliquer status NOT_FOUND, and
\* both are under 'error'.
C29_Witness ==
  /\ pc = "count" /\ driver = "clique" /\ has_reduction
  /\ stats.total = 2
  /\ result # NoResult
  /\ result.ursa_status = "UNKNOWN" /\ result.cliquer_status = "NOT_FOUND"
  /\ result.reduction_status = "UNKNOWN"
  /\ stats.ursa.error > 0 /\ stats.cliquer.error > 0 /\ stats.reduction.error > 0

(***************************************************************************)
(* The reduction counters over several runs (Spec).                        *)
(***************************************************************************)
\* a resumed run without a reduction template has finalized on the report
\* that a run with a reduction template finalized before it
ResumedWithoutTemplate ==
  /\ JustFinalized /\ continue_mode /\ ~has_reduction
  /\ prev_run.end = "final" /\ prev_run.red

\* C30: the reduction counters that a run with a reduction template wrote,
\* and that a later resumed run without a reduction template loaded, are
\* what the next resume loads from the report that run leaves.
C30_ReductionCountersSurvive ==
  ResumedWithoutTemplate =>
     load_existing_results(driver, report_exists, report).existing_stats.reduction
        = existing_stats.reduction

====
